---- MODULE Spec2Model ----
(***************************************************************************)
(* Fishbone (Ishikawa) diagram component: the bone tree, its mutation      *)
(* operations, the import/export pair, the layout engine and the render    *)
(* pass that turns a tree into overlays, buttons, nodes and edges.         *)
(*                                                                         *)
(* Text is modelled as a sequence of one-character strings, so that        *)
(* text.length is Len and an empty string is <<>>.  Lengths measured in    *)
(* pixels are kept in hundredths of a pixel (centi-pixels).  A CJK         *)
(* character of a default label is written as its pinyin syllable; it is   *)
(* still one element, that is one character, of the text.                  *)
(***************************************************************************)
EXTENDS Integers, Sequences, FiniteSets, TLC

(***************************************************************************)
(* Bounds of the model                                                     *)
(***************************************************************************)
\* genId is not called once idSeq has reached this value
MaxIdSeq == 4
\* init(promise) is not called while this many promises are in flight
MaxPending == 1

\* bones in a tree handed to init or setData
MaxDataSize == 7

\* pan and zoom gestures (pointer-down, wheel, zoom buttons) that are counted
MaxViewOps == 1

\* ids handed out while the canvas is panned and zoomed
MaxViewIdSeq == 3

VARIABLES
    fishData,       \* [bigBones: Seq(big bone)], the reactive bone tree
    idSeq,          \* the counter behind genId
    headLabel,      \* text of the fish head
    mode,           \* "edit" | "view"
    loading,        \* loading mask shown
    needsCenter,    \* the next render re-centers the canvas
    isFirstRender,  \* no centering has completed since the last init
    pendingInits,   \* init calls suspended at their await, with the promise's outcome
    hoveringOverlayId, \* id of the overlay shown as an input, <<>> for null
    drawn,          \* what the last renderGraph drew: [live, fd, mode, FISH_SCALE], the
                    \* tree and mode it ran on and the fish scale its layout gave (kept
                    \* in headFontSize and headTextWidth); what a render leaves behind
                    \* (editOverlays, callbackMap, graph, headPos, tailPos, ...) is
                    \* worked out from the tree and the mode
    detached,       \* the bones the overlays point to were replaced by setData
    scale,          \* zoom factor, in 1/10000
    baseScale,      \* zoom factor of the first centering, in 1/10000
    panX,           \* whole pixels
    panY,
    viewport,       \* clientWidth / clientHeight of the viewport, whole pixels
    isPanning,      \* a drag of the canvas is in progress
    didDrag,        \* the pointer moved more than 3 pixels since pointer-down
    panStartX,      \* clientX / clientY of the pointer-down, whole pixels
    panStartY,
    panOriginX,     \* panX / panY at the pointer-down
    panOriginY,
    viewOps,        \* pan and zoom gestures so far, counted up to MaxViewOps
    lastCall        \* the operation that ran last, with what it found

dataVars   == <<fishData, idSeq, headLabel>>
renderVars == <<drawn, detached>>
otherVars  == <<mode, loading, pendingInits, viewport, hoveringOverlayId>>
viewVars   == <<scale, baseScale, panX, panY, needsCenter, isFirstRender>>
panVars    == <<isPanning, didDrag, panStartX, panStartY, panOriginX, panOriginY, viewOps>>

vars == <<fishData, idSeq, headLabel, mode, loading, needsCenter, isFirstRender,
          pendingInits, hoveringOverlayId, drawn, detached, scale, baseScale, panX, panY, viewport,
          isPanning, didDrag, panStartX, panStartY, panOriginX, panOriginY, viewOps, lastCall>>

(***************************************************************************)
(* Text helpers                                                            *)
(***************************************************************************)
DigitChars == <<"0", "1", "2", "3", "4", "5", "6", "7", "8", "9">>

\* decimal rendering of a natural number inside a template literal
RECURSIVE NumStr(_)
NumStr(n) == IF n < 10 THEN <<DigitChars[n + 1]>>
             ELSE NumStr(n \div 10) \o <<DigitChars[(n % 10) + 1]>>

\* `n_${idSeq}`
IdOf(n) == <<"n", "_">> \o NumStr(n)

BigDefaultLabel(i)   == <<"da", "gu", " ">> \o NumStr(i)
MidDefaultLabel(i)   == <<"zhong", "gu", " ">> \o NumStr(i)
SmallDefaultLabel(i) == <<"xiao", "gu", " ">> \o NumStr(i)

PositionOf(i) == IF i % 2 = 0 THEN "top" ELSE "bottom"

Max(a, b) == IF a >= b THEN a ELSE b
Min(a, b) == IF a <= b THEN a ELSE b

\* pixels to centi-pixels
Px(n) == n * 100

(***************************************************************************)
(* Layout module: constants                                                *)
(***************************************************************************)
LINE_CHARS == 10
BIG_GAP == 100
DIAG == 150
MID_LEN == 90
PAIR_GAP == 60
PAD_L == 30
TAIL == 50
CY == 350
EMPTY_MAIN_LEN == 100
SM_BOX_MIN_W == 60
SM_BOX_H == 24
SM_GAP_Y == 8
MID_BOX_MIN_W == 80
MID_BOX_H == 24
BIG_BOX_MIN_W == 100
BIG_BOX_H == 32
SM_LINK_LEN == 40
GROUP_GAP == 30
HEAD_TO_FIRST_BONE == 0
TAIL_GAP == 150

(***************************************************************************)
(* Layout module: size helpers.  Results are centi-pixels unless noted.    *)
(***************************************************************************)
\* SM_BOX_H * 1.8 for a two-line label
smBoxH(sm) == IF Len(sm.label) > LINE_CHARS THEN SM_BOX_H * 180 ELSE Px(SM_BOX_H)

\* a sum that puts the gap before the first item as well
RECURSIVE SumSmBoxHGapBeforeFirst(_, _)
SumSmBoxHGapBeforeFirst(sms, j) ==
    IF j > Len(sms) THEN 0
    ELSE Px(SM_GAP_Y) + smBoxH(sms[j]) + SumSmBoxHGapBeforeFirst(sms, j + 1)

RECURSIVE SumSmBoxH(_, _)
SumSmBoxH(sms, j) ==
    IF j > Len(sms) THEN 0
    ELSE (IF j > 1 THEN Px(SM_GAP_Y) ELSE 0) + smBoxH(sms[j]) + SumSmBoxH(sms, j + 1)

totalSmallBonesH(m) == IF Len(m.smallBones) = 0 THEN 0 ELSE SumSmBoxH(m.smallBones, 1)

\* Math.ceil(v * Math.SQRT2) for v given in fifths of a pixel: the least
\* k with k >= v * sqrt(2) / 5, that is with 25 k^2 >= 2 v^2
CeilSqrt2(v5) ==
    LET k0 == (v5 * 141421) \div 500000
    IN  CHOOSE k \in (k0 - 1)..(k0 + 2) :
            /\ 25 * k * k >= 2 * v5 * v5
            /\ (k = 0 \/ 25 * (k - 1) * (k - 1) < 2 * v5 * v5)

\* whole pixels
midBoneSpan(m) ==
    LET smH    == totalSmallBonesH(m)
        needed == Max(Px(MID_BOX_H + 20), smH + Px(MID_BOX_H))
    IN  CeilSqrt2(needed \div 20)

\* whole pixels
calcHeadMargin(b) == IF Len(b.midBones) = 0 THEN 80 ELSE Max(80, BIG_BOX_H + 40)

RECURSIVE SumSpans(_, _)
SumSpans(mids, i) == IF i > Len(mids) THEN 0 ELSE midBoneSpan(mids[i]) + SumSpans(mids, i + 1)

\* whole pixels
calcDiag(b) ==
    IF Len(b.midBones) = 0 THEN DIAG
    ELSE Max(DIAG, calcHeadMargin(b) + SumSpans(b.midBones, 1) + 50)

\* v / Math.SQRT2 for v in whole pixels
DivSqrt2(v) == (v * 70711) \div 1000

calcDynamicMidLen(m) ==
    LET smH == totalSmallBonesH(m)
    IN  IF smH = 0 THEN Px(MID_LEN) ELSE Px(MID_LEN) + smH \div 2

\* fs * 1.1 per character plus 24
calcBoxW(text, minW, fs) == Max(Px(minW), Min(Len(text), LINE_CHARS) * (fs * 110) + Px(24))

smBoxW(sm) == calcBoxW(sm.label, SM_BOX_MIN_W, 18)
midBoxW(m) == calcBoxW(m.label, MID_BOX_MIN_W, 20)
bigBoxW(b) == calcBoxW(b.label, BIG_BOX_MIN_W, 24)

RECURSIVE MaxSmW(_, _)
MaxSmW(sms, j) == IF j > Len(sms) THEN Px(SM_BOX_MIN_W) ELSE Max(smBoxW(sms[j]), MaxSmW(sms, j + 1))

maxSmBoxW(m) == IF Len(m.smallBones) = 0 THEN 0 ELSE MaxSmW(m.smallBones, 1)

\* twice a centerOffset that does not accumulate the spans of the mid-bones
\* before
CenterOff2NoAccum(b, i) == 2 * calcHeadMargin(b) + midBoneSpan(b.midBones[i])

\* twice the centerOffset of mid-bone i (whole pixels times two): the head
\* margin, the spans of the mid-bones before it and half of its own span
CenterOff2(b, i) ==
    2 * calcHeadMargin(b) + 2 * (SumSpans(b.midBones, 1) - SumSpans(b.midBones, i))
      + midBoneSpan(b.midBones[i])

\* dd * t for mid-bone i, with t = centerOffset / dynamicDiag
AxOff(b, i) == (DivSqrt2(calcDiag(b)) * CenterOff2(b, i)) \div (2 * calcDiag(b))

MidLeftFromBx(b, i) ==
    LET m == b.midBones[i]
    IN  AxOff(b, i) + calcDynamicMidLen(m) + midBoxW(m) + Px(10)
          + (IF Len(m.smallBones) > 0 THEN Px(SM_LINK_LEN) + maxSmBoxW(m) + Px(10) ELSE 0)

RECURSIVE MaxMidLeft(_, _)
MaxMidLeft(b, i) ==
    IF i > Len(b.midBones) THEN 0 ELSE Max(MidLeftFromBx(b, i), MaxMidLeft(b, i + 1))

boneLeftExtent(b) == Max(DivSqrt2(calcDiag(b)) + Px(80), MaxMidLeft(b, 1))

boneW(b) == Max(Px(BIG_GAP), boneLeftExtent(b) + Px(40))

(***************************************************************************)
(* Layout module: grouping of big bones and placement along the spine.     *)
(* Groups are numbered from 1 (nearest the head).                          *)
(***************************************************************************)
NumGroups(bb) == (Len(bb) + 1) \div 2
GroupTop(bb, gi) == bb[2 * gi - 1]
HasBot(bb, gi) == 2 * gi <= Len(bb)
GroupBot(bb, gi) == bb[2 * gi]

\* an extent that looks at the top bone of the group only
GroupExtTopOnly(bb, gi) == boneLeftExtent(GroupTop(bb, gi))

\* Math.max(topExt, botExt)
GroupExt(bb, gi) ==
    Max(boneLeftExtent(GroupTop(bb, gi)),
        IF HasBot(bb, gi) THEN boneLeftExtent(GroupBot(bb, gi)) + Px(PAIR_GAP) ELSE 0)

GroupWidth(bb, gi) ==
    Max(boneW(GroupTop(bb, gi)), IF HasBot(bb, gi) THEN boneW(GroupBot(bb, gi)) ELSE 0)
      + (IF HasBot(bb, gi) THEN Px(PAIR_GAP) ELSE 0)

tailSafeRight == Px(PAD_L + TAIL + 50)

\* Math.max(dd, ddBot) * 0.2 + 20
RightHalf(bb, gi) ==
    Max(DivSqrt2(calcDiag(GroupTop(bb, gi))),
        IF HasBot(bb, gi) THEN DivSqrt2(calcDiag(GroupBot(bb, gi))) ELSE 0) \div 5 + Px(20)

\* relOffsets with a cursor that leaves out the extent of the group before
RECURSIVE RelOffsetNoExtent(_, _)
RelOffsetNoExtent(bb, gi) ==
    IF gi = 1 THEN 0
    ELSE RelOffsetNoExtent(bb, gi - 1) + Px(GROUP_GAP) + RightHalf(bb, gi)

\* relOffsets[gi]; the cursor after group gi-1 is its offset plus its
\* extent plus GROUP_GAP
RECURSIVE RelOffset(_, _)
RelOffset(bb, gi) ==
    IF gi = 1 THEN 0
    ELSE RelOffset(bb, gi - 1) + GroupExt(bb, gi - 1) + Px(GROUP_GAP) + RightHalf(bb, gi)

RECURSIVE FirstBoneXFrom(_, _)
FirstBoneXFrom(bb, gi) ==
    IF gi > NumGroups(bb) THEN tailSafeRight
    ELSE Max(tailSafeRight + Px(TAIL_GAP) + RelOffset(bb, gi) + GroupExt(bb, gi),
             FirstBoneXFrom(bb, gi + 1))

firstBoneX(bb) == FirstBoneXFrom(bb, 1)

\* a head end without the case of the empty tree
mainEndWithoutEmptyCase(bb) == firstBoneX(bb) + Px(HEAD_TO_FIRST_BONE)

\* a head end that the width of the last group pushes away from the first
\* anchor
mainEndPushedByLastGroup(bb) ==
    IF Len(bb) = 0 THEN Px(PAD_L + TAIL + EMPTY_MAIN_LEN)
    ELSE firstBoneX(bb) + GroupWidth(bb, NumGroups(bb)) - Px(BIG_GAP)

mainEnd(bb) ==
    IF Len(bb) = 0 THEN Px(PAD_L + TAIL + EMPTY_MAIN_LEN)
    ELSE firstBoneX(bb) + Px(HEAD_TO_FIRST_BONE)

\* the slot of the big bone at index k (from 1): group top at topX, group
\* bottom at topX - PAIR_GAP; fbx is firstBoneX
SlotOf(bb, fbx, k) ==
    LET gi   == (k + 1) \div 2
        topX == fbx - RelOffset(bb, gi)
    IN  [b |-> bb[k],
         x |-> IF k % 2 = 1 THEN topX ELSE topX - Px(PAIR_GAP),
         w |-> GroupWidth(bb, gi)]

RECURSIVE SlotsFrom(_, _, _)
SlotsFrom(bb, fbx, k) ==
    IF k > Len(bb) THEN <<>> ELSE <<SlotOf(bb, fbx, k)>> \o SlotsFrom(bb, fbx, k + 1)

Slots(bb) == SlotsFrom(bb, firstBoneX(bb), 1)

DirOf(b) == IF b.position = "top" THEN -1 ELSE 1

(***************************************************************************)
(* Layout module: canvas bounds scan                                       *)
(***************************************************************************)
MidXMin(b, bx, i) ==
    LET m  == b.midBones[i]
        ax == bx - AxOff(b, i)
        midBoxXCalc == ax - calcDynamicMidLen(m) - midBoxW(m)
        a  == Min(midBoxXCalc - Px(60), ax - Px(60))
    IN  IF Len(m.smallBones) > 0
        THEN Min(a, midBoxXCalc - Px(SM_LINK_LEN) - maxSmBoxW(m) - Px(20))
        ELSE a

MidYMin(b, i) ==
    LET m  == b.midBones[i]
        ay == Px(CY) + DirOf(b) * AxOff(b, i)
    IN  IF Len(m.smallBones) > 0
        THEN Min(ay - Px(60), ay - totalSmallBonesH(m) \div 2 - Px(20))
        ELSE ay - Px(60)

MidYMax(b, i) ==
    LET m  == b.midBones[i]
        ay == Px(CY) + DirOf(b) * AxOff(b, i)
    IN  IF Len(m.smallBones) > 0
        THEN Max(ay + Px(60), ay + totalSmallBonesH(m) \div 2 + Px(20))
        ELSE ay + Px(60)

RECURSIVE BoneXMinFrom(_, _, _)
BoneXMinFrom(b, bx, i) ==
    IF i > Len(b.midBones) THEN bx - DivSqrt2(calcDiag(b)) - Px(80)
    ELSE Min(MidXMin(b, bx, i), BoneXMinFrom(b, bx, i + 1))

RECURSIVE BoneYMinFrom(_, _)
BoneYMinFrom(b, i) ==
    IF i > Len(b.midBones) THEN Px(CY) + DirOf(b) * DivSqrt2(calcDiag(b)) - Px(80)
    ELSE Min(MidYMin(b, i), BoneYMinFrom(b, i + 1))

RECURSIVE BoneYMaxFrom(_, _)
BoneYMaxFrom(b, i) ==
    IF i > Len(b.midBones) THEN Px(CY) + DirOf(b) * DivSqrt2(calcDiag(b)) + Px(80)
    ELSE Max(MidYMax(b, i), BoneYMaxFrom(b, i + 1))

RECURSIVE XMinFrom(_, _)
XMinFrom(slots, k) ==
    IF k > Len(slots) THEN Px(PAD_L - 20)
    ELSE Min(BoneXMinFrom(slots[k].b, slots[k].x, 1), XMinFrom(slots, k + 1))

RECURSIVE YMinFrom(_, _)
YMinFrom(slots, k) ==
    IF k > Len(slots) THEN Px(CY) ELSE Min(BoneYMinFrom(slots[k].b, 1), YMinFrom(slots, k + 1))

RECURSIVE YMaxFrom(_, _)
YMaxFrom(slots, k) ==
    IF k > Len(slots) THEN Px(CY) ELSE Max(BoneYMaxFrom(slots[k].b, 1), YMaxFrom(slots, k + 1))

RECURSIVE TotalMidCount(_, _)
TotalMidCount(bb, k) ==
    IF k > Len(bb) THEN 0 ELSE Len(bb[k].midBones) + TotalMidCount(bb, k + 1)

\* a fish scale that is only worked out in edit mode
FishScaleInEditMode(bb) ==
    IF mode = "view" THEN 160 ELSE Min(250, 160 + TotalMidCount(bb, 1) * 12)

\* FISH_SCALE in hundredths: min(2.5, 1.6 + totalMidCount * 0.12)
FishScale(bb) == Min(250, 160 + TotalMidCount(bb, 1) * 12)

\* the steps of calculateLayout in order: the slots are placed, the bounds
\* scanned, the shifts and the shifted head end derived, the result built
calculateLayout(fd) ==
    LET Result(slots, shiftX, shiftY, shiftedMainEnd, yMax, fscale, svg) ==
            [slots |-> slots,
             shiftX |-> shiftX,
             shiftY |-> shiftY,
             shiftedMainEnd |-> shiftedMainEnd,
             cy |-> Px(CY) + shiftY,
             FISH_SCALE |-> fscale,
             HEAD_SVG_W |-> svg, HEAD_SVG_H |-> svg,
             TAIL_SVG_W |-> svg, TAIL_SVG_H |-> svg,
             canvasW |-> Max(shiftedMainEnd + svg + Px(40), Px(900)),
             canvasH |-> Max(Max(yMax + shiftY + Px(40), svg + Px(100)), Px(700))]
        Shifted(bb, slots, shiftX, shiftY, yMax, fscale) ==
            Result(slots, shiftX, shiftY, mainEnd(bb) + shiftX, yMax, fscale, 120 * fscale)
        Scanned(bb, slots, xMin, yMin, yMax) ==
            Shifted(bb, slots,
                    IF xMin < tailSafeRight THEN tailSafeRight - xMin ELSE 0,
                    IF yMin < 0 THEN Px(40) - yMin ELSE 0,
                    yMax, FishScale(bb))
        Placed(bb, slots) ==
            Scanned(bb, slots, XMinFrom(slots, 1), YMinFrom(slots, 1), YMaxFrom(slots, 1))
    IN  Placed(fd.bigBones, Slots(fd.bigBones))

\* anchor and width of the slots from the k-th on
RECURSIVE SlotPlaces(_, _)
SlotPlaces(slots, k) ==
    IF k > Len(slots) THEN <<>>
    ELSE <<[x |-> slots[k].x, w |-> slots[k].w]>> \o SlotPlaces(slots, k + 1)

\* the numbers of a layout result: what calculateLayout returns, with each
\* slot's bone left out
GeometryOf(lay) ==
    [slots |-> SlotPlaces(lay.slots, 1),
     canvasW |-> lay.canvasW, canvasH |-> lay.canvasH,
     shiftX |-> lay.shiftX, shiftY |-> lay.shiftY,
     shiftedMainEnd |-> lay.shiftedMainEnd, cy |-> lay.cy,
     FISH_SCALE |-> lay.FISH_SCALE]

(***************************************************************************)
(* Component constants and imports                                         *)
(***************************************************************************)
MAX_CHARS == 20
BTN == 24
SCALE_MIN == 3000
SCALE_MAX == 20000

\* the names the layout module exports
LayoutExports ==
    {"LINE_CHARS", "BIG_GAP", "DIAG", "MID_LEN", "PAIR_GAP", "PAD_L", "TAIL", "CY",
     "EMPTY_MAIN_LEN", "calculateLayout", "getBigBoneAnchor", "getMidBoneAnchor"}

\* the binding the component imports under this name: a name the module
\* does not export is bound to undefined.  A toolchain that rejects such an
\* import produces no component; the model describes the builds that run.
MAX_SMALL_BONES == [undef |-> "MAX_SMALL_BONES" \notin LayoutExports, num |-> 0]

\* n < v in JavaScript for a number n: false when v is undefined (NaN)
JsLess(n, v) == (~v.undef) /\ n < v.num

NoId == <<>>

(***************************************************************************)
(* Drawer: addLabelNode, addBtn, addEdge, addCurvedEdge                    *)
(***************************************************************************)
\* the overlay or node rectangle addLabelNode produces for one call
addLabelNode(c) ==
    LET lineH        == (c.fs * 3 + 1) \div 2
        needTwoLines == Len(c.text) > LINE_CHARS
        displayH     == IF needTwoLines THEN Px(lineH * 2 + 6) ELSE c.h
        extra        == displayH - c.h
        displayY     == IF ~needTwoLines THEN c.y
                        ELSE IF c.growDir = -1 THEN c.y - extra
                        ELSE IF c.growDir = 1 THEN c.y
                        ELSE c.y - extra \div 2
    IN  [id |-> c.id, x |-> c.x, y |-> displayY, w |-> c.w, h |-> displayH,
         boneRef |-> [id |-> c.boneId, live |-> TRUE],
         delInfo |-> c.delInfo, boneType |-> c.delInfo.type]

\* the button node addBtn draws; size is in whole pixels
addBtn(id, x, y, fn, size) ==
    [id |-> id, x |-> x, y |-> y, w |-> Px(size), h |-> Px(size), fn |-> fn]

addEdge(role, x1, y1, x2, y2) == [role |-> role, x1 |-> x1, y1 |-> y1, x2 |-> x2, y2 |-> y2]

Callback(op, bigId, midId) == [op |-> op, bigId |-> bigId, midId |-> midId]

DelInfo(type, bigId, midId, smId) == [type |-> type, bigId |-> bigId, midId |-> midId, smId |-> smId]

(***************************************************************************)
(* renderGraph: geometry of one mid-bone and of its small bones            *)
(***************************************************************************)
MidGeom(lay, slot, i) ==
    LET b   == slot.b
        m   == b.midBones[i]
        ax  == slot.x - AxOff(b, i)
        ay  == lay.cy + DirOf(b) * AxOff(b, i)
        mex == ax - Px(MID_LEN)
        mlw == midBoxW(m)
        midBoxX == mex - mlw
        tSmH == totalSmallBonesH(m)
    IN  [ax |-> ax, ay |-> ay, mex |-> mex, mlw |-> mlw, midBoxX |-> midBoxX,
         midBoxY |-> ay - Px(MID_BOX_H) \div 2,
         smStartY |-> ay - tSmH \div 2,
         lineOriginX |-> midBoxX,
         smBoxRightX |-> midBoxX - Px(SM_LINK_LEN),
         branchX |-> midBoxX - Px(12)]

\* top of the j-th small-bone box: curY after j - 1 boxes and gaps
RECURSIVE SmCurY(_, _, _)
SmCurY(sms, startY, j) ==
    IF j = 1 THEN startY
    ELSE SmCurY(sms, startY, j - 1) + smBoxH(sms[j - 1]) + Px(SM_GAP_Y)

SmallLabelCall(lay, slot, i, j) ==
    LET b  == slot.b
        m  == b.midBones[i]
        sm == m.smallBones[j]
        g  == MidGeom(lay, slot, i)
    IN  [id |-> <<"sm_label_">> \o sm.id,
         x |-> g.smBoxRightX - smBoxW(sm), y |-> SmCurY(m.smallBones, g.smStartY, j),
         w |-> smBoxW(sm), h |-> smBoxH(sm), text |-> sm.label, fs |-> 18,
         boneId |-> sm.id, delInfo |-> DelInfo("small", b.id, m.id, sm.id), growDir |-> 0]

RECURSIVE SmallLabelCalls(_, _, _, _)
SmallLabelCalls(lay, slot, i, j) ==
    IF j > Len(slot.b.midBones[i].smallBones) THEN <<>>
    ELSE <<SmallLabelCall(lay, slot, i, j)>> \o SmallLabelCalls(lay, slot, i, j + 1)

MidLabelCall(lay, slot, i) ==
    LET b == slot.b
        m == b.midBones[i]
        g == MidGeom(lay, slot, i)
    IN  [id |-> <<"mid_label_">> \o m.id,
         x |-> g.midBoxX, y |-> g.midBoxY, w |-> g.mlw, h |-> Px(MID_BOX_H),
         text |-> m.label, fs |-> 20,
         boneId |-> m.id, delInfo |-> DelInfo("mid", b.id, m.id, NoId), growDir |-> 0]

RECURSIVE MidLabelCalls(_, _, _)
MidLabelCalls(lay, slot, i) ==
    IF i > Len(slot.b.midBones) THEN <<>>
    ELSE <<MidLabelCall(lay, slot, i)>> \o SmallLabelCalls(lay, slot, i, 1)
           \o MidLabelCalls(lay, slot, i + 1)

\* end point of the diagonal of a slot
DiagEnd(lay, slot) ==
    LET dd == DivSqrt2(calcDiag(slot.b))
    IN  [ex |-> slot.x - dd, ey |-> lay.cy + DirOf(slot.b) * dd]

BigLabelCall(lay, slot) ==
    LET b   == slot.b
        dir == DirOf(b)
        e   == DiagEnd(lay, slot)
        lw  == bigBoxW(b)
        lh  == Px(BIG_BOX_H)
    IN  [id |-> <<"big_label_">> \o b.id,
         x |-> e.ex - lw \div 2, y |-> IF dir = -1 THEN e.ey - lh ELSE e.ey,
         w |-> lw, h |-> lh, text |-> b.label, fs |-> 24,
         boneId |-> b.id, delInfo |-> DelInfo("big", b.id, NoId, NoId), growDir |-> dir]

RECURSIVE MapLabelNode(_, _)
MapLabelNode(calls, n) ==
    IF n > Len(calls) THEN <<>> ELSE <<addLabelNode(calls[n])>> \o MapLabelNode(calls, n + 1)

\* every addLabelNode call of one render, in call order
RECURSIVE LabelCalls(_, _)
LabelCalls(lay, k) ==
    IF k > Len(lay.slots) THEN <<>>
    ELSE <<BigLabelCall(lay, lay.slots[k])>> \o MidLabelCalls(lay, lay.slots[k], 1)
           \o LabelCalls(lay, k + 1)

(***************************************************************************)
(* renderGraph: plus buttons                                               *)
(***************************************************************************)
MidBtnCall(lay, slot) ==
    LET b       == slot.b
        diag    == calcDiag(b)
        dd      == DivSqrt2(diag)
        btnDist == Min(Px(40) + diag * 6, Px(80))
        off     == (dd * btnDist) \div Px(diag)
    IN  addBtn(<<"btn_mid_">> \o b.id, slot.x - off - Px(10),
               lay.cy + DirOf(b) * off - Px(10),
               Callback("addMidBone", b.id, NoId), 20)

\* the mid-bones that get an add-small-bone button, in render order
RECURSIVE SmBtnMidsOf(_, _, _)
SmBtnMidsOf(lay, k, i) ==
    IF i > Len(lay.slots[k].b.midBones) THEN <<>>
    ELSE (IF JsLess(Len(lay.slots[k].b.midBones[i].smallBones), MAX_SMALL_BONES)
          THEN <<[k |-> k, i |-> i]>> ELSE <<>>)
         \o SmBtnMidsOf(lay, k, i + 1)

RECURSIVE SmBtnMids(_, _)
SmBtnMids(lay, k) ==
    IF k > Len(lay.slots) THEN <<>>
    ELSE SmBtnMidsOf(lay, k, 1) \o SmBtnMids(lay, k + 1)

\* btn_sm_${++btnSeq} for the n-th mid-bone that gets a button
SmBtnCall(lay, t, n) ==
    LET slot == lay.slots[t.k]
        g    == MidGeom(lay, slot, t.i)
    IN  addBtn(<<"btn_sm_">> \o NumStr(n), (g.ax + g.mex) \div 2 - Px(9), g.ay - Px(9),
               Callback("addSmallBone", slot.b.id, slot.b.midBones[t.i].id), 18)

mainLeftOf(lay) == Px(PAD_L) + lay.shiftX + Px(TAIL)

RECURSIVE MidBtnCalls(_, _)
MidBtnCalls(lay, k) ==
    IF k > Len(lay.slots) THEN <<>>
    ELSE <<MidBtnCall(lay, lay.slots[k])>> \o MidBtnCalls(lay, k + 1)

RECURSIVE SmBtnCalls(_, _, _)
SmBtnCalls(lay, targets, n) ==
    IF n > Len(targets) THEN <<>>
    ELSE <<SmBtnCall(lay, targets[n], n)>> \o SmBtnCalls(lay, targets, n + 1)

\* every addBtn call of one render
BtnCalls(lay) ==
    <<addBtn(<<"btn_add_big">>, mainLeftOf(lay) + Px(15), lay.cy - Px(BTN) \div 2,
             Callback("addBigBone", NoId, NoId), BTN)>>
    \o MidBtnCalls(lay, 1)
    \o SmBtnCalls(lay, SmBtnMids(lay, 1), 1)

(***************************************************************************)
(* renderGraph: lines                                                      *)
(***************************************************************************)
SmallEdges(lay, slot, i) ==
    LET m   == slot.b.midBones[i]
        sms == m.smallBones
        g   == MidGeom(lay, slot, i)
    IN  IF Len(sms) = 0 THEN {}
        ELSE IF Len(sms) = 1
        THEN {addEdge("smLink", g.lineOriginX, g.ay, g.smBoxRightX,
                      g.smStartY + smBoxH(sms[1]) \div 2)}
        ELSE {addEdge("smStub", g.lineOriginX, g.ay, g.branchX, g.ay)}
             \cup {addEdge("smCurve", g.branchX, g.ay, g.smBoxRightX,
                           SmCurY(sms, g.smStartY, j) + smBoxH(sms[j]) \div 2) :
                   j \in 1..Len(sms)}

SlotEdges(lay, slot) ==
    LET e == DiagEnd(lay, slot)
    IN  {addEdge("diag", slot.x, lay.cy, e.ex, e.ey)}
        \cup {addEdge("mid", MidGeom(lay, slot, i).ax, MidGeom(lay, slot, i).ay,
                      MidGeom(lay, slot, i).mex, MidGeom(lay, slot, i).ay) :
              i \in 1..Len(slot.b.midBones)}
        \cup UNION {SmallEdges(lay, slot, i) : i \in 1..Len(slot.b.midBones)}

\* every addEdge / addCurvedEdge call of one render
EdgeCalls(lay) ==
    {addEdge("spine", mainLeftOf(lay) - 36 * lay.FISH_SCALE, lay.cy,
             lay.shiftedMainEnd + 36 * lay.FISH_SCALE, lay.cy)}
    \cup UNION {SlotEdges(lay, lay.slots[k]) : k \in 1..Len(lay.slots)}

SeqToSet(sq) == {sq[i] : i \in 1..Len(sq)}

(***************************************************************************)
(* renderGraph: everything one render leaves behind, for a tree and mode   *)
(***************************************************************************)
\* a render whose overlays and callbacks do not look at the mode
RenderOfIgnoringMode(lay, md) ==
    LET labels == MapLabelNode(LabelCalls(lay, 1), 1)
        btns   == BtnCalls(lay)
    IN  [editOverlays |-> labels,
         callbackMap  |-> {[id |-> btns[n].id, fn |-> btns[n].fn] : n \in 1..Len(btns)},
         graph |-> [live |-> TRUE, width |-> lay.canvasW, height |-> lay.canvasH,
                    labelNodes |-> IF md = "edit" THEN {}
                                   ELSE {[id |-> labels[n].id, x |-> labels[n].x,
                                          y |-> labels[n].y, w |-> labels[n].w,
                                          h |-> labels[n].h] : n \in 1..Len(labels)},
                    btnNodes |-> IF md = "edit"
                                 THEN {[id |-> btns[n].id, x |-> btns[n].x, y |-> btns[n].y,
                                        w |-> btns[n].w, h |-> btns[n].h] : n \in 1..Len(btns)}
                                 ELSE {},
                    edges |-> EdgeCalls(lay)],
         tailPos |-> [x |-> mainLeftOf(lay) - lay.TAIL_SVG_W, y |-> lay.cy - lay.TAIL_SVG_H \div 2,
                      w |-> lay.TAIL_SVG_W, h |-> lay.TAIL_SVG_H],
         headPos |-> [x |-> lay.shiftedMainEnd, y |-> lay.cy - lay.HEAD_SVG_H \div 2,
                      w |-> lay.HEAD_SVG_W, h |-> lay.HEAD_SVG_H],
         headFontSize  |-> (16 * lay.FISH_SCALE * 2 + 160) \div 320,
         headTextWidth |-> (72 * lay.FISH_SCALE * 2 + 160) \div 320]

RenderOf(lay, md) ==
    LET labels == MapLabelNode(LabelCalls(lay, 1), 1)
        btns   == BtnCalls(lay)
    IN  [editOverlays |-> IF md = "edit" THEN labels ELSE <<>>,
         callbackMap  |-> IF md = "edit"
                          THEN {[id |-> btns[n].id, fn |-> btns[n].fn] : n \in 1..Len(btns)}
                          ELSE {},
         graph |-> [live |-> TRUE, width |-> lay.canvasW, height |-> lay.canvasH,
                    labelNodes |-> IF md = "edit" THEN {}
                                   ELSE {[id |-> labels[n].id, x |-> labels[n].x,
                                          y |-> labels[n].y, w |-> labels[n].w,
                                          h |-> labels[n].h] : n \in 1..Len(labels)},
                    btnNodes |-> IF md = "edit"
                                 THEN {[id |-> btns[n].id, x |-> btns[n].x, y |-> btns[n].y,
                                        w |-> btns[n].w, h |-> btns[n].h] : n \in 1..Len(btns)}
                                 ELSE {},
                    edges |-> EdgeCalls(lay)],
         tailPos |-> [x |-> mainLeftOf(lay) - lay.TAIL_SVG_W, y |-> lay.cy - lay.TAIL_SVG_H \div 2,
                      w |-> lay.TAIL_SVG_W, h |-> lay.TAIL_SVG_H],
         headPos |-> [x |-> lay.shiftedMainEnd, y |-> lay.cy - lay.HEAD_SVG_H \div 2,
                      w |-> lay.HEAD_SVG_W, h |-> lay.HEAD_SVG_H],
         headFontSize  |-> (16 * lay.FISH_SCALE * 2 + 160) \div 320,
         headTextWidth |-> (72 * lay.FISH_SCALE * 2 + 160) \div 320]

\* what renderGraph leaves behind for tree fd in mode md
RenderOut(fd, md) == RenderOf(calculateLayout(fd), md)

Detached(ovs) == [n \in 1..Len(ovs) |-> [ovs[n] EXCEPT !.boneRef.live = FALSE]]

NoBox == [x |-> 0, y |-> 0, w |-> 0, h |-> 0]
NoGraph == [live |-> FALSE, width |-> 0, height |-> 0,
            labelNodes |-> {}, btnNodes |-> {}, edges |-> {}]

(***************************************************************************)
(* The render state of the component, read off the last render             *)
(***************************************************************************)
editOverlays ==
    IF ~drawn.live THEN <<>>
    ELSE IF detached THEN Detached(RenderOut(drawn.fd, drawn.mode).editOverlays)
    ELSE RenderOut(drawn.fd, drawn.mode).editOverlays

callbackMap == IF drawn.live THEN RenderOut(drawn.fd, drawn.mode).callbackMap ELSE {}
graph == IF drawn.live THEN RenderOut(drawn.fd, drawn.mode).graph ELSE NoGraph
headPos == IF drawn.live THEN RenderOut(drawn.fd, drawn.mode).headPos ELSE NoBox
tailPos == IF drawn.live THEN RenderOut(drawn.fd, drawn.mode).tailPos ELSE NoBox
headFontSize == IF drawn.live THEN RenderOut(drawn.fd, drawn.mode).headFontSize ELSE 16
headTextWidth == IF drawn.live THEN RenderOut(drawn.fd, drawn.mode).headTextWidth ELSE 72

(***************************************************************************)
(* Inputs                                                                  *)
(***************************************************************************)
Alphabet == <<"a", "b", "c", "d", "e", "f", "g", "h", "i", "j", "k", "l", "m",
              "o", "p", "q", "r", "s", "t", "u", "v", "w", "x", "y", "z">>

Typed(n) == SubSeq(Alphabet, 1, n)

\* values typed into a label input
TypedValues == {Typed(0), Typed(22)}

\* values typed around the length limit of a label
BoundaryValues == {Typed(3), Typed(MAX_CHARS), Typed(MAX_CHARS + 1)}

ViewportSizes == {[w |-> 1200, h |-> 640]}

InSmall(l) == [label |-> l]
InMid(l, sms) == [label |-> l, smallBones |-> sms]
InBig(l, mids) == [label |-> l, midBones |-> mids]

\* data handed to init / setData by the parent; an empty label stands for
\* any falsy label
SampleData ==
    {[headLabel |-> <<"H">>,
      bigBones |-> <<InBig(<<"A">>, <<InMid(<<>>, <<InSmall(<<"s">>)>>)>>)>>],
     [headLabel |-> <<>>, bigBones |-> <<InBig(<<>>, <<>>), InBig(<<"B">>, <<>>)>>]}

\* a mid-bone with five small bones: one-character labels, and labels of
\* one and two lines mixed
StackData ==
    {[headLabel |-> <<>>,
      bigBones |-> <<InBig(<<"A">>, <<InMid(<<"m">>,
                        <<InSmall(<<"a">>), InSmall(<<"b">>), InSmall(<<"c">>),
                          InSmall(<<"d">>), InSmall(<<"e">>)>>)>>)>>],
     [headLabel |-> <<>>,
      bigBones |-> <<InBig(<<"A">>, <<InMid(<<"m">>,
                        <<InSmall(Typed(LINE_CHARS + 1)), InSmall(<<"b">>),
                          InSmall(Typed(MAX_CHARS)), InSmall(Typed(LINE_CHARS)),
                          InSmall(<<>>)>>)>>)>>]}

\* what a promise handed to init settles to
EmptyData == [headLabel |-> <<>>, bigBones |-> <<>>]
Outcomes ==
    {[kind |-> "data", data |-> d] : d \in SampleData}
    \cup {[kind |-> "nothing", data |-> EmptyData], [kind |-> "reject", data |-> EmptyData]}

NoCall == [op |-> "none", type |-> "", ok |-> FALSE]
Call(op, type, idx, ok) == [op |-> op, type |-> type, ok |-> ok]

(***************************************************************************)
(* Data model                                                              *)
(***************************************************************************)
\* genId after the counter has been incremented to n
genId(n) == IdOf(n)

\* findIndex: the first index (from 1) whose id matches, 0 when none
RECURSIVE FindFrom(_, _, _)
FindFrom(sq, id, i) ==
    IF i > Len(sq) THEN 0 ELSE IF sq[i].id = id THEN i ELSE FindFrom(sq, id, i + 1)

FindIndex(sq, id) == FindFrom(sq, id, 1)

\* splice(idx, 1)
RemoveAt(sq, idx) == SubSeq(sq, 1, idx - 1) \o SubSeq(sq, idx + 1, Len(sq))

\* no re-assignment of position after a deletion
RepositionNone(bb) == bb

Reposition(bb) == [i \in 1..Len(bb) |-> [bb[i] EXCEPT !.position = PositionOf(i - 1)]]

(***************************************************************************)
(* setData / getData                                                       *)
(***************************************************************************)
InMidSize(m) == 1 + Len(m.smallBones)

RECURSIVE InMidsSize(_, _)
InMidsSize(mids, j) == IF j < 1 THEN 0 ELSE InMidSize(mids[j]) + InMidsSize(mids, j - 1)

InBigSize(b) == 1 + InMidsSize(b.midBones, Len(b.midBones))

RECURSIVE InBigsSize(_, _)
InBigsSize(bigs, i) == IF i < 1 THEN 0 ELSE InBigSize(bigs[i]) + InBigsSize(bigs, i - 1)

\* the number of genId calls setData makes for this data
DataSize(data) == InBigsSize(data.bigBones, Len(data.bigBones))

\* item.label || fallback
LabelOr(l, fallback) == IF l # <<>> THEN l ELSE fallback

\* the tree setData builds: ids in traversal order from n_1
setDataTree(data) ==
    [i \in 1..Len(data.bigBones) |->
        LET bigItem == data.bigBones[i]
            base    == InBigsSize(data.bigBones, i - 1)
        IN  [id |-> genId(base + 1),
             label |-> LabelOr(bigItem.label, BigDefaultLabel(i)),
             position |-> PositionOf(i - 1),
             midBones |->
                [j \in 1..Len(bigItem.midBones) |->
                    LET midItem == bigItem.midBones[j]
                        mbase   == base + 1 + InMidsSize(bigItem.midBones, j - 1)
                    IN  [id |-> genId(mbase + 1),
                         label |-> LabelOr(midItem.label, MidDefaultLabel(j)),
                         smallBones |->
                            [k \in 1..Len(midItem.smallBones) |->
                                [id |-> genId(mbase + 1 + k),
                                 label |-> LabelOr(midItem.smallBones[k].label,
                                                   SmallDefaultLabel(k))]]]]]]

getData ==
    [headLabel |-> headLabel,
     bigBones |-> [i \in 1..Len(fishData.bigBones) |->
        [label |-> fishData.bigBones[i].label,
         midBones |-> [j \in 1..Len(fishData.bigBones[i].midBones) |->
            [label |-> fishData.bigBones[i].midBones[j].label,
             smallBones |-> [k \in 1..Len(fishData.bigBones[i].midBones[j].smallBones) |->
                [label |-> fishData.bigBones[i].midBones[j].smallBones[k].label]]]]]]]

\* the counter is zeroed after the tree has been built
SetDataEffectLateReset(data) ==
    /\ idSeq' = 0
    /\ fishData' = [bigBones |-> setDataTree(data)]
    /\ headLabel' = IF data.headLabel # <<>> THEN data.headLabel ELSE headLabel

\* the assignments of setData; the bones the overlays point to are no
\* longer in the tree
SetDataEffect(data) ==
    /\ idSeq' = DataSize(data)
    /\ fishData' = [bigBones |-> setDataTree(data)]
    /\ headLabel' = IF data.headLabel # <<>> THEN data.headLabel ELSE headLabel

(***************************************************************************)
(* renderGraph as a step                                                   *)
(***************************************************************************)
\* doCenter: the fit-to-viewport zoom factor for a canvas
FitScale(cw, ch) ==
    LET scaleX   == ((viewport.w - 120) * 1000000) \div cw
        scaleY   == ((viewport.h - 120) * 1000000) \div ch
        fitScale == Max(Min(Min(scaleX, scaleY), 10000), SCALE_MIN)
    IN  IF scaleX < 10000 \/ scaleY < 10000 THEN fitScale ELSE 10000

\* canvas length (centi-pixels) times zoom factor, in centi-pixels
Scaled(len, sc) == ((len \div 100) * sc) \div 100 + ((len % 100) * sc) \div 10000

\* Math.round((v - scaled) / 2) in whole pixels
CenterPan(v, scaledLen) == (Px(v) - scaledLen + 100) \div 200

\* a render that centers the canvas every time
RenderGraphAlwaysCenter(fd, md, nc, ifr) ==
    /\ drawn' = [live |-> TRUE, fd |-> fd, mode |-> md, FISH_SCALE |-> FishScale(fd.bigBones)]
    /\ detached' = FALSE
    /\ \E lay \in {calculateLayout(fd)} :
          LET sc == FitScale(lay.canvasW, lay.canvasH)
          IN  /\ scale' = sc
              /\ panX' = CenterPan(viewport.w, Scaled(lay.canvasW, sc))
              /\ panY' = CenterPan(viewport.h, Scaled(lay.canvasH, sc))
              /\ baseScale' = IF ifr THEN sc ELSE baseScale
              /\ isFirstRender' = FALSE
              /\ needsCenter' = FALSE

\* renderGraph on tree fd in mode md, with needsCenter = nc and
\* isFirstRender = ifr on entry; doCenter runs in the same tick
RenderGraph(fd, md, nc, ifr) ==
    /\ drawn' = [live |-> TRUE, fd |-> fd, mode |-> md, FISH_SCALE |-> FishScale(fd.bigBones)]
    /\ detached' = FALSE
    /\ IF nc
       THEN \E lay \in {calculateLayout(fd)} :
                LET sc == FitScale(lay.canvasW, lay.canvasH)
                IN  /\ scale' = sc
                    /\ panX' = CenterPan(viewport.w, Scaled(lay.canvasW, sc))
                    /\ panY' = CenterPan(viewport.h, Scaled(lay.canvasH, sc))
                    /\ baseScale' = IF ifr THEN sc ELSE baseScale
                    /\ isFirstRender' = FALSE
                    /\ needsCenter' = FALSE
       ELSE /\ UNCHANGED <<scale, panX, panY, baseScale>>
            /\ isFirstRender' = ifr
            /\ needsCenter' = nc

(***************************************************************************)
(* Initial state: the component has been set up and mounted, init has not  *)
(* been called yet                                                         *)
(***************************************************************************)
Init ==
    /\ fishData = [bigBones |-> <<>>]
    /\ idSeq = 0
    /\ headLabel = <<"wen", "ti", "xiang", "qing">>
    /\ mode = "edit"
    /\ loading = FALSE
    /\ needsCenter = TRUE
    /\ isFirstRender = TRUE
    /\ pendingInits = <<>>
    /\ hoveringOverlayId = NoId
    /\ drawn = [live |-> FALSE, fd |-> [bigBones |-> <<>>], mode |-> "edit", FISH_SCALE |-> 0]
    /\ detached = FALSE
    /\ scale = 10000
    /\ baseScale = 10000
    /\ panX = 0
    /\ panY = 0
    /\ viewport \in ViewportSizes
    /\ isPanning = FALSE
    /\ didDrag = FALSE
    /\ panStartX = 0
    /\ panStartY = 0
    /\ panOriginX = 0
    /\ panOriginY = 0
    /\ viewOps = 0
    /\ lastCall = NoCall

(***************************************************************************)
(* Bone creation                                                           *)
(***************************************************************************)
addBigBone ==
    /\ idSeq < MaxIdSeq
    /\ LET n == Len(fishData.bigBones)
       IN  /\ idSeq' = idSeq + 1
           /\ fishData' = [fishData EXCEPT !.bigBones = Append(@,
                  [id |-> genId(idSeq + 1), label |-> BigDefaultLabel(n + 1),
                   position |-> PositionOf(n), midBones |-> <<>>])]
           /\ lastCall' = Call("addBigBone", "big", n + 1, TRUE)
    /\ RenderGraph(fishData', mode, needsCenter, isFirstRender)
    /\ UNCHANGED <<headLabel, mode, loading, pendingInits, viewport, panVars, hoveringOverlayId>>

\* push in place of unshift
InsertMidLast(mids, m) == Append(mids, m)

\* unshift: the new mid-bone goes in front
InsertMid(mids, m) == <<m>> \o mids

\* genId runs before the parent is looked up
addMidBoneEager(bigId) ==
    LET bi == FindIndex(fishData.bigBones, bigId)
    IN  IF bi = 0
        THEN /\ idSeq < MaxIdSeq
             /\ idSeq' = idSeq + 1
             /\ lastCall' = Call("addMidBone", "mid", 0, FALSE)
             /\ UNCHANGED <<fishData, headLabel, renderVars, viewVars, otherVars, panVars>>
        ELSE /\ idSeq < MaxIdSeq
             /\ LET n == Len(fishData.bigBones[bi].midBones)
                IN  /\ idSeq' = idSeq + 1
                    /\ fishData' = [fishData EXCEPT !.bigBones[bi].midBones = InsertMid(@,
                           [id |-> genId(idSeq + 1), label |-> MidDefaultLabel(n + 1),
                            smallBones |-> <<>>])]
             /\ lastCall' = Call("addMidBone", "mid", bi, TRUE)
             /\ RenderGraph(fishData', mode, needsCenter, isFirstRender)
             /\ UNCHANGED <<headLabel, otherVars, panVars>>

addMidBone(bigId) ==
    LET bi == FindIndex(fishData.bigBones, bigId)
    IN  IF bi = 0
        THEN /\ lastCall' = Call("addMidBone", "mid", 0, FALSE)
             /\ UNCHANGED <<dataVars, renderVars, viewVars, mode, loading, pendingInits, viewport, panVars, hoveringOverlayId>>
        ELSE /\ idSeq < MaxIdSeq
             /\ LET n == Len(fishData.bigBones[bi].midBones)
                IN  /\ idSeq' = idSeq + 1
                    /\ fishData' = [fishData EXCEPT !.bigBones[bi].midBones = InsertMid(@,
                           [id |-> genId(idSeq + 1), label |-> MidDefaultLabel(n + 1),
                            smallBones |-> <<>>])]
             /\ lastCall' = Call("addMidBone", "mid", bi, TRUE)
             /\ RenderGraph(fishData', mode, needsCenter, isFirstRender)
             /\ UNCHANGED <<headLabel, mode, loading, pendingInits, viewport, panVars, hoveringOverlayId>>

addSmallBone(bigId, midId) ==
    LET bi == FindIndex(fishData.bigBones, bigId)
        mi == IF bi = 0 THEN 0 ELSE FindIndex(fishData.bigBones[bi].midBones, midId)
    IN  IF bi = 0 \/ mi = 0
        THEN /\ lastCall' = Call("addSmallBone", "small", 0, FALSE)
             /\ UNCHANGED <<dataVars, renderVars, viewVars, mode, loading, pendingInits, viewport, panVars, hoveringOverlayId>>
        ELSE /\ idSeq < MaxIdSeq
             /\ LET n == Len(fishData.bigBones[bi].midBones[mi].smallBones)
                IN  /\ idSeq' = idSeq + 1
                    /\ fishData' = [fishData EXCEPT
                           !.bigBones[bi].midBones[mi].smallBones = Append(@,
                               [id |-> genId(idSeq + 1), label |-> SmallDefaultLabel(n + 1)])]
             /\ lastCall' = Call("addSmallBone", "small", mi, TRUE)
             /\ RenderGraph(fishData', mode, needsCenter, isFirstRender)
             /\ UNCHANGED <<headLabel, mode, loading, pendingInits, viewport, panVars, hoveringOverlayId>>

(***************************************************************************)
(* Bone deletion                                                           *)
(***************************************************************************)
\* splice(idx, 1) without the idx > -1 test: splice(-1, 1) removes the last
\* element
SpliceUnguarded(sq, idx) ==
    IF idx > 0 THEN RemoveAt(sq, idx) ELSE SubSeq(sq, 1, Len(sq) - 1)

deleteBoneTreeUnguarded(bb, d) ==
    LET bi == FindIndex(bb, d.bigId)
    IN  IF d.type = "big" THEN Reposition(SpliceUnguarded(bb, bi))
        ELSE IF bi = 0 THEN bb
        ELSE LET mids == bb[bi].midBones
                 mi   == FindIndex(mids, d.midId)
             IN  IF d.type = "mid" THEN [bb EXCEPT ![bi].midBones = SpliceUnguarded(@, mi)]
                 ELSE IF mi = 0 THEN bb
                 ELSE [bb EXCEPT ![bi].midBones[mi].smallBones =
                           SpliceUnguarded(@, FindIndex(mids[mi].smallBones, d.smId))]

\* the tree after deleteBone(delInfo)'s splices and re-positioning
deleteBoneTree(bb, d) ==
    LET bi == FindIndex(bb, d.bigId)
    IN  IF d.type = "big"
        THEN Reposition(IF bi > 0 THEN RemoveAt(bb, bi) ELSE bb)
        ELSE IF bi = 0 THEN bb
        ELSE LET mids == bb[bi].midBones
                 mi   == FindIndex(mids, d.midId)
             IN  IF d.type = "mid"
                 THEN IF mi > 0 THEN [bb EXCEPT ![bi].midBones = RemoveAt(@, mi)] ELSE bb
                 ELSE IF mi = 0 THEN bb
                 ELSE LET si == FindIndex(mids[mi].smallBones, d.smId)
                      IN  IF si > 0
                          THEN [bb EXCEPT ![bi].midBones[mi].smallBones = RemoveAt(@, si)]
                          ELSE bb

\* the index the last findIndex of deleteBone returns (0: not found), and
\* whether deleteBone returns before it renders
DeleteLookup(bb, d) ==
    LET bi == FindIndex(bb, d.bigId)
        mi == IF bi = 0 THEN 0 ELSE FindIndex(bb[bi].midBones, d.midId)
        si == IF mi = 0 THEN 0 ELSE FindIndex(bb[bi].midBones[mi].smallBones, d.smId)
    IN  [idx |-> IF d.type = "big" THEN bi ELSE IF d.type = "mid" THEN mi ELSE si,
         early |-> (d.type = "mid" /\ bi = 0) \/ (d.type = "small" /\ (bi = 0 \/ mi = 0))]

\* deleteBone returning without the redraw
deleteBoneNoRender(d) ==
    LET look == DeleteLookup(fishData.bigBones, d)
    IN  /\ fishData' = [fishData EXCEPT !.bigBones = deleteBoneTree(@, d)]
        /\ lastCall' = Call("deleteBone", d.type, look.idx, look.idx > 0)
        /\ UNCHANGED <<idSeq, headLabel, renderVars, viewVars, otherVars, panVars>>

deleteBone(d) ==
    LET look == DeleteLookup(fishData.bigBones, d)
    IN  /\ fishData' = [fishData EXCEPT !.bigBones = deleteBoneTree(@, d)]
        /\ lastCall' = Call("deleteBone", d.type, look.idx, look.idx > 0)
        /\ IF look.early
           THEN UNCHANGED <<renderVars, viewVars>>
           ELSE RenderGraph(fishData', mode, needsCenter, isFirstRender)
        /\ UNCHANGED <<idSeq, headLabel, mode, loading, pendingInits, viewport, panVars, hoveringOverlayId>>

\* ids a caller can name for a bone of one level: those of the bones of that
\* level in the tree, and one that names no bone (n_0 is never generated)
BigIds == {fishData.bigBones[i].id : i \in 1..Len(fishData.bigBones)} \cup {IdOf(0)}
MidIds ==
    UNION {{fishData.bigBones[i].midBones[j].id : j \in 1..Len(fishData.bigBones[i].midBones)} :
              i \in 1..Len(fishData.bigBones)} \cup {IdOf(0)}
SmIds ==
    UNION {UNION {{fishData.bigBones[i].midBones[j].smallBones[k].id :
                      k \in 1..Len(fishData.bigBones[i].midBones[j].smallBones)} :
                     j \in 1..Len(fishData.bigBones[i].midBones)} :
              i \in 1..Len(fishData.bigBones)} \cup {IdOf(0)}

DelInfos ==
    {DelInfo("big", b, NoId, NoId) : b \in BigIds}
    \cup {DelInfo("mid", b, m, NoId) : b \in BigIds, m \in MidIds}
    \cup {DelInfo("small", b, m, sm) : b \in BigIds, m \in MidIds, sm \in SmIds}

(***************************************************************************)
(* init, setData                                                           *)
(***************************************************************************)
\* init(): no data, render what is there
initEmpty ==
    /\ lastCall' = Call("init", "none", 0, TRUE)
    /\ RenderGraph(fishData, mode, TRUE, TRUE)
    /\ UNCHANGED <<dataVars, mode, loading, pendingInits, viewport, panVars, hoveringOverlayId>>

\* init(data) with a plain object
initData(data) ==
    /\ DataSize(data) <= MaxDataSize
    /\ SetDataEffect(data)
    /\ lastCall' = Call("init", "data", 0, TRUE)
    /\ RenderGraph(fishData', mode, TRUE, TRUE)
    /\ UNCHANGED <<mode, loading, pendingInits, viewport, panVars, hoveringOverlayId>>

\* init(promise): runs up to the await
initPromise(outcome) ==
    /\ Len(pendingInits) < MaxPending
    /\ needsCenter' = TRUE
    /\ isFirstRender' = TRUE
    /\ loading' = TRUE
    /\ pendingInits' = Append(pendingInits, outcome)
    /\ lastCall' = Call("init", "promise", 0, TRUE)
    /\ UNCHANGED <<dataVars, renderVars, scale, baseScale, panX, panY, mode, viewport, panVars,
                   hoveringOverlayId>>

\* the promise of the k-th suspended init settles: the rest of that init
settleInit(k) ==
    /\ k \in 1..Len(pendingInits)
    /\ LET o == pendingInits[k]
       IN  /\ pendingInits' = RemoveAt(pendingInits, k)
           /\ loading' = FALSE
           /\ lastCall' = Call("settleInit", o.kind, 0, o.kind = "data")
           /\ IF o.kind = "data"
              THEN /\ DataSize(o.data) <= MaxDataSize
                   /\ SetDataEffect(o.data)
                   /\ RenderGraph(fishData', mode, needsCenter, isFirstRender)
              ELSE IF o.kind = "nothing"
              THEN /\ RenderGraph(fishData, mode, needsCenter, isFirstRender)
                   /\ UNCHANGED dataVars
              ELSE UNCHANGED <<dataVars, renderVars, viewVars>>
    /\ UNCHANGED <<mode, viewport, panVars, hoveringOverlayId>>

\* setData(data) called by the parent through the component ref
setData(data) ==
    /\ DataSize(data) <= MaxDataSize
    /\ SetDataEffect(data)
    /\ detached' = TRUE
    /\ lastCall' = Call("setData", "data", 0, TRUE)
    /\ UNCHANGED <<drawn, viewVars, mode, loading, pendingInits, viewport, panVars, hoveringOverlayId>>

\* setData(getData())
setDataOfGetData ==
    /\ SetDataEffect(getData)
    /\ detached' = TRUE
    /\ lastCall' = Call("setData", "getData", 0, TRUE)
    /\ UNCHANGED <<drawn, viewVars, mode, loading, pendingInits, viewport, panVars, hoveringOverlayId>>

(***************************************************************************)
(* Label editing and mode switch                                           *)
(***************************************************************************)
\* an input handler that stores the typed value as it is
TruncateNone(val) == val

\* the value an input handler stores
Truncate(val) == IF Len(val) > MAX_CHARS THEN SubSeq(val, 1, MAX_CHARS) ELSE val

\* boneRef.label = v for the bone an overlay of the last render points to
SetLabel(bb, d, v) ==
    LET bi == FindIndex(bb, d.bigId)
    IN  IF d.type = "big" THEN [bb EXCEPT ![bi].label = v]
        ELSE LET mi == FindIndex(bb[bi].midBones, d.midId)
             IN  IF d.type = "mid" THEN [bb EXCEPT ![bi].midBones[mi].label = v]
                 ELSE LET si == FindIndex(bb[bi].midBones[mi].smallBones, d.smId)
                      IN  [bb EXCEPT ![bi].midBones[mi].smallBones[si].label = v]

\* the paths (delInfo) of the bones of a tree: one overlay per path
BonePaths(bb) ==
    {DelInfo("big", bb[i].id, NoId, NoId) : i \in 1..Len(bb)}
    \cup UNION {{DelInfo("mid", bb[i].id, bb[i].midBones[j].id, NoId) :
                    j \in 1..Len(bb[i].midBones)} : i \in 1..Len(bb)}
    \cup UNION {UNION {{DelInfo("small", bb[i].id, bb[i].midBones[j].id,
                                bb[i].midBones[j].smallBones[k].id) :
                           k \in 1..Len(bb[i].midBones[j].smallBones)} :
                      j \in 1..Len(bb[i].midBones)} : i \in 1..Len(bb)}

\* delInfo of the overlays on screen
OverlayPaths == IF drawn.live /\ drawn.mode = "edit" THEN BonePaths(drawn.fd.bigBones) ELSE {}

\* ov.id of the overlay whose delInfo is d
OverlayId(d) ==
    IF d.type = "big" THEN <<"big_label_">> \o d.bigId
    ELSE IF d.type = "mid" THEN <<"mid_label_">> \o d.midId
    ELSE <<"sm_label_">> \o d.smId

\* the pointer enters the overlay whose delInfo is d; it has left the
\* overlay it was over before (the browser fires that mouseleave first)
onOverlayMouseEnter(d) ==
    /\ d \in OverlayPaths
    /\ \A e \in OverlayPaths : OverlayId(e) # hoveringOverlayId
    /\ hoveringOverlayId' = IF mode = "edit" THEN OverlayId(d) ELSE hoveringOverlayId
    /\ lastCall' = Call("onOverlayMouseEnter", d.type, 0, mode = "edit")
    /\ UNCHANGED <<dataVars, renderVars, viewVars, mode, loading, pendingInits, viewport, panVars>>

\* the pointer leaves the overlay whose delInfo is d
onOverlayMouseLeave(d) ==
    /\ d \in OverlayPaths
    /\ lastCall' = Call("onOverlayMouseLeave", d.type, 0, hoveringOverlayId = OverlayId(d))
    /\ IF hoveringOverlayId = OverlayId(d)
       THEN /\ hoveringOverlayId' = NoId
            /\ RenderGraph(fishData, mode, needsCenter, isFirstRender)
       ELSE UNCHANGED <<hoveringOverlayId, renderVars, viewVars>>
    /\ UNCHANGED <<dataVars, mode, loading, pendingInits, viewport, panVars>>

\* input event on the overlay whose delInfo is d: only the hovered overlay
\* holds an input element; its boneRef is the bone the render saw
onOverlayInput(d, val) ==
    /\ d \in OverlayPaths
    /\ hoveringOverlayId = OverlayId(d)
    /\ fishData' = IF ~detached
                   THEN [fishData EXCEPT !.bigBones = SetLabel(@, d, Truncate(val))]
                   ELSE fishData
    /\ lastCall' = Call("onOverlayInput", d.type, 0, ~detached)
    /\ UNCHANGED <<idSeq, headLabel, renderVars, viewVars, otherVars, panVars>>

\* blur of the input of the hovered overlay
onOverlayBlur ==
    /\ \E e \in OverlayPaths : OverlayId(e) = hoveringOverlayId
    /\ hoveringOverlayId' = NoId
    /\ lastCall' = Call("onOverlayBlur", "none", 0, TRUE)
    /\ RenderGraph(fishData, mode, needsCenter, isFirstRender)
    /\ UNCHANGED <<dataVars, mode, loading, pendingInits, viewport, panVars>>

\* the head input exists in edit mode only
onHeadInput(val) ==
    /\ mode = "edit"
    /\ headLabel' = Truncate(val)
    /\ lastCall' = Call("onHeadInput", "head", 0, TRUE)
    /\ UNCHANGED <<fishData, idSeq, renderVars, viewVars, mode, loading, pendingInits, viewport, panVars, hoveringOverlayId>>

\* the mode radio group: v-model, then @change="renderGraph"
setMode(m) ==
    /\ m # mode
    /\ mode' = m
    /\ lastCall' = Call("setMode", m, 0, TRUE)
    /\ RenderGraph(fishData, m, needsCenter, isFirstRender)
    /\ UNCHANGED <<dataVars, loading, pendingInits, viewport, panVars, hoveringOverlayId>>

\* graph.on('node:click') for a click on any node of the graph: nothing
\* after a drag; otherwise the callback registered under the id of the node
\* runs, when there is one
onNodeClick ==
    /\ drawn.live
    /\ ~didDrag
    /\ \E r \in {RenderOut(drawn.fd, drawn.mode)} :
          \E id \in {n.id : n \in r.graph.btnNodes \cup r.graph.labelNodes} :
              IF \E c \in r.callbackMap : c.id = id
              THEN \E c \in r.callbackMap :
                      /\ c.id = id
                      /\ IF c.fn.op = "addBigBone" THEN addBigBone
                         ELSE IF c.fn.op = "addMidBone" THEN addMidBone(c.fn.bigId)
                         ELSE addSmallBone(c.fn.bigId, c.fn.midId)
              ELSE /\ lastCall' = Call("onNodeClick", "none", 0, FALSE)
                   /\ UNCHANGED <<dataVars, renderVars, viewVars, otherVars, panVars>>

(***************************************************************************)
(* Canvas pan and zoom                                                     *)
(***************************************************************************)
\* clientX / clientY of pointer and wheel events, whole pixels; the viewport's
\* bounding rectangle starts at the origin of the client area
PointerDownPositions == {[x |-> 300, y |-> 200]}
PointerMovePositions == {[x |-> 340, y |-> 190]}

Abs(n) == IF n < 0 THEN -n ELSE n

\* a / b to the nearest integer, for b > 0
RoundDiv(a, b) == (2 * a + b) \div (2 * b)

\* pointerdown on the viewport at p, outside the inline edit boxes and the
\* head label (inside them the handler returns at once)
onPointerDown(p) ==
    /\ viewOps' = Min(viewOps + 1, MaxViewOps)
    /\ isPanning' = TRUE
    /\ didDrag' = FALSE
    /\ panStartX' = p.x
    /\ panStartY' = p.y
    /\ panOriginX' = panX
    /\ panOriginY' = panY
    /\ lastCall' = Call("onPointerDown", "view", 0, TRUE)
    /\ UNCHANGED <<dataVars, renderVars, viewVars, otherVars>>

\* pointermove on the window; returns at once unless a drag is in progress
onPointerMove(p) ==
    /\ isPanning
    /\ LET dx == p.x - panStartX
           dy == p.y - panStartY
       IN  /\ didDrag' = (didDrag \/ Abs(dx) > 3 \/ Abs(dy) > 3)
           /\ panX' = panOriginX + dx
           /\ panY' = panOriginY + dy
    /\ lastCall' = Call("onPointerMove", "view", 0, TRUE)
    /\ UNCHANGED <<dataVars, renderVars, otherVars, scale, baseScale, needsCenter, isFirstRender,
                   isPanning, panStartX, panStartY, panOriginX, panOriginY, viewOps>>

\* pointerup on the window; returns at once unless a drag is in progress
onPointerUp ==
    /\ isPanning
    /\ isPanning' = FALSE
    /\ lastCall' = Call("onPointerUp", "view", 0, TRUE)
    /\ UNCHANGED <<dataVars, renderVars, viewVars, otherVars,
                   didDrag, panStartX, panStartY, panOriginX, panOriginY, viewOps>>

\* wheel on the viewport at p; up: deltaY <= 0. The zoom keeps the point
\* under the pointer in place; pan is kept to the nearest whole pixel
onWheel(p, up) ==
    /\ viewOps' = Min(viewOps + 1, MaxViewOps)
    /\ LET oldScale == scale
           delta    == IF up THEN 800 ELSE -800
           newScale == Min(SCALE_MAX, Max(SCALE_MIN, oldScale + delta))
       IN  /\ panX' = p.x - RoundDiv((p.x - panX) * newScale, oldScale)
           /\ panY' = p.y - RoundDiv((p.y - panY) * newScale, oldScale)
           /\ scale' = newScale
    /\ lastCall' = Call("onWheel", "view", 0, TRUE)
    /\ UNCHANGED <<dataVars, renderVars, otherVars, baseScale, needsCenter, isFirstRender,
                   isPanning, didDrag, panStartX, panStartY, panOriginX, panOriginY>>

zoomIn ==
    /\ viewOps' = Min(viewOps + 1, MaxViewOps)
    /\ scale' = Min((SCALE_MAX * baseScale) \div 10000, scale + baseScale \div 10)
    /\ lastCall' = Call("zoomIn", "view", 0, TRUE)
    /\ UNCHANGED <<dataVars, renderVars, otherVars, baseScale, panX, panY, needsCenter,
                   isFirstRender, isPanning, didDrag, panStartX, panStartY, panOriginX, panOriginY>>

zoomOut ==
    /\ viewOps' = Min(viewOps + 1, MaxViewOps)
    /\ scale' = Max((SCALE_MIN * baseScale) \div 10000, scale - baseScale \div 10)
    /\ lastCall' = Call("zoomOut", "view", 0, TRUE)
    /\ UNCHANGED <<dataVars, renderVars, otherVars, baseScale, panX, panY, needsCenter,
                   isFirstRender, isPanning, didDrag, panStartX, panStartY, panOriginX, panOriginY>>

\* returns at once before the first centering; the assignment
\* scale = baseScale is overwritten by the centering of the render that follows
resetZoom ==
    /\ ~isFirstRender
    /\ viewOps' = Min(viewOps + 1, MaxViewOps)
    /\ lastCall' = Call("resetZoom", "view", 0, TRUE)
    /\ RenderGraph(fishData, mode, TRUE, isFirstRender)
    /\ UNCHANGED <<dataVars, otherVars,
                   isPanning, didDrag, panStartX, panStartY, panOriginX, panOriginY>>

(***************************************************************************)
(* Specifications                                                          *)
(***************************************************************************)
\* the structure of the tree: bone creation and deletion, in both modes
Next ==
    \/ addBigBone
    \/ \E b \in BigIds : addMidBone(b)
    \/ \E b \in BigIds, m \in MidIds : addSmallBone(b, m)
    \/ \E d \in DelInfos : deleteBone(d)
    \/ \E m \in {"edit", "view"} : setMode(m)

Spec == Init /\ [][Next]_vars

\* bone creation and deletion between imports
NextData ==
    \/ addBigBone
    \/ \E b \in BigIds : addMidBone(b)
    \/ \E b \in BigIds, m \in MidIds : addSmallBone(b, m)
    \/ \E d \in DelInfos : deleteBone(d)
    \/ \E d \in SampleData : setData(d)

SpecData == Init /\ [][NextData]_vars

\* label editing on a drawn tree
NextEdit ==
    \/ \E d \in SampleData : initData(d)
    \/ \E d \in OverlayPaths : onOverlayMouseEnter(d)
    \/ \E d \in OverlayPaths : onOverlayMouseLeave(d)
    \/ \E d \in OverlayPaths, v \in TypedValues : onOverlayInput(d, v)
    \/ onOverlayBlur
    \/ setDataOfGetData

SpecEdit == Init /\ [][NextEdit]_vars

\* the head label
NextHead ==
    \/ \E d \in SampleData : initData(d)
    \/ \E v \in TypedValues : onHeadInput(v)
    \/ addBigBone
    \/ \E m \in {"edit", "view"} : setMode(m)

SpecHead == Init /\ [][NextHead]_vars

\* typing into the head input and into the label inputs of a drawn tree
NextLabel ==
    \/ \E d \in SampleData : initData(d)
    \/ \E v \in TypedValues \cup BoundaryValues : onHeadInput(v)
    \/ \E d \in OverlayPaths : onOverlayMouseEnter(d)
    \/ \E d \in OverlayPaths, v \in TypedValues \cup BoundaryValues : onOverlayInput(d, v)
    \/ onOverlayBlur
    \/ \E m \in {"edit", "view"} : setMode(m)

SpecLabel == Init /\ [][NextLabel]_vars

\* init with a promise, and the calls that can run while it is pending
NextInit ==
    \/ initEmpty
    \/ \E d \in SampleData : initData(d)
    \/ \E o \in Outcomes : initPromise(o)
    \/ \E k \in 1..MaxPending : settleInit(k)
    \/ addBigBone

SpecInit == Init /\ [][NextInit]_vars

\* panning and zooming a tree that is being built and edited, in both
\* modes; the label that is edited is a small bone's
NextView ==
    \/ idSeq < MaxViewIdSeq /\ addBigBone
    \/ \E b \in BigIds : idSeq < MaxViewIdSeq /\ addMidBone(b)
    \/ \E b \in BigIds, m \in MidIds : idSeq < MaxViewIdSeq /\ addSmallBone(b, m)
    \/ \E d \in DelInfos : deleteBone(d)
    \/ \E d \in OverlayPaths : d.type = "small" /\ onOverlayMouseEnter(d)
    \/ \E d \in OverlayPaths : onOverlayInput(d, Typed(22))
    \/ onOverlayBlur
    \/ \E m \in {"edit", "view"} : setMode(m)
    \/ \E p \in PointerDownPositions : viewOps < MaxViewOps /\ onPointerDown(p)
    \/ \E p \in PointerMovePositions : onPointerMove(p)
    \/ onPointerUp
    \/ \E p \in PointerDownPositions, up \in BOOLEAN : viewOps < MaxViewOps /\ onWheel(p, up)
    \/ viewOps < MaxViewOps /\ zoomIn
    \/ viewOps < MaxViewOps /\ zoomOut
    \/ viewOps < MaxViewOps /\ resetZoom

SpecView == Init /\ [][NextView]_vars

\* building a tree and typing two-line labels into its mid and small bones
NextDraw ==
    \/ addBigBone
    \/ \E b \in BigIds : addMidBone(b)
    \/ \E b \in BigIds, m \in MidIds : addSmallBone(b, m)
    \/ \E d \in OverlayPaths : d.type # "big" /\ onOverlayMouseEnter(d)
    \/ \E d \in OverlayPaths : onOverlayInput(d, Typed(MAX_CHARS))
    \/ onOverlayBlur

SpecDraw == Init /\ [][NextDraw]_vars

\* a stack of small bones handed to init and taken apart bone by bone
NextStack ==
    \/ \E d \in StackData : initData(d)
    \/ \E d \in DelInfos : deleteBone(d)

SpecStack == Init /\ [][NextStack]_vars

\* zooming without a limit on the number of button presses
NextZoom ==
    \/ idSeq < MaxViewIdSeq /\ addBigBone
    \/ \E p \in PointerDownPositions, up \in BOOLEAN : viewOps < MaxViewOps /\ onWheel(p, up)
    \/ zoomIn
    \/ zoomOut
    \/ resetZoom

SpecZoom == Init /\ [][NextZoom]_vars

\* clicks, hovers and typing on the diagram in both modes
NextMode ==
    \/ onNodeClick
    \/ \E d \in OverlayPaths : d.type = "mid" /\ onOverlayMouseEnter(d)
    \/ \E d \in OverlayPaths : onOverlayInput(d, Typed(MAX_CHARS))
    \/ onOverlayBlur
    \/ \E d \in OverlayPaths : deleteBone(d)
    \/ \E m \in {"edit", "view"} : setMode(m)

SpecMode == Init /\ [][NextMode]_vars

(***************************************************************************)
(* Properties of the bone tree                                             *)
(***************************************************************************)
MidsOf(fd) == UNION {SeqToSet(fd.bigBones[i].midBones) : i \in 1..Len(fd.bigBones)}
SmallsOf(fd) == UNION {SeqToSet(m.smallBones) : m \in MidsOf(fd)}

\* the ids of all bones of a tree
IdsOf(fd) ==
    {b.id : b \in SeqToSet(fd.bigBones)} \cup {m.id : m \in MidsOf(fd)}
    \cup {sm.id : sm \in SmallsOf(fd)}

RECURSIVE CountMids(_, _)
CountMids(mids, j) == IF j < 1 THEN 0 ELSE 1 + Len(mids[j].smallBones) + CountMids(mids, j - 1)

RECURSIVE CountBones(_, _)
CountBones(bb, i) ==
    IF i < 1 THEN 0
    ELSE 1 + CountMids(bb[i].midBones, Len(bb[i].midBones)) + CountBones(bb, i - 1)

\* the number of bones of a tree
BoneCount(fd) == CountBones(fd.bigBones, Len(fd.bigBones))

\* C1: after any sequence of setData, add and delete calls the big bone at
\* (0-based) index i has position "top" when i is even and "bottom" when i
\* is odd
C1_PositionByParity ==
    \A n \in 1..Len(fishData.bigBones) :
        fishData.bigBones[n].position = IF (n - 1) % 2 = 0 THEN "top" ELSE "bottom"

\* C1 witness: the first of two big bones has just been deleted; the
\* survivor, created second and "bottom" until then, is now "top"
C1_Witness ==
    /\ lastCall = [op |-> "deleteBone", type |-> "big", ok |-> TRUE]
    /\ Len(fishData.bigBones) = 1
    /\ fishData.bigBones[1].id = IdOf(2)
    /\ fishData.bigBones[1].position = "top"

\* ids handed out since the counter was last reset
Issued == {IdOf(n) : n \in 1..idSeq}

\* C2: the ids of the bones of the tree are pairwise distinct and were all
\* handed out since the last setData; a step other than setData never lowers
\* the counter, and a bone it adds gets an id not handed out before, hence
\* not the id of any present or deleted bone
C2_IdsNeverReused ==
    [][/\ Cardinality(IdsOf(fishData')) = BoneCount(fishData')
       /\ IdsOf(fishData') \subseteq Issued'
       /\ lastCall'.op # "setData" =>
             /\ idSeq' >= idSeq
             /\ (IdsOf(fishData') \ IdsOf(fishData)) \cap Issued = {}]_vars

\* C2 witness: a bone has been deleted and a bone added after it: the tree
\* holds the newest id and misses an older one
C2_Witness ==
    /\ lastCall.op \in {"addBigBone", "addMidBone", "addSmallBone"}
    /\ lastCall.ok
    /\ IdOf(idSeq) \in IdsOf(fishData)
    /\ \E n \in 1..idSeq : IdOf(n) \notin IdsOf(fishData)

\* sq2 is sq1 with one bone of the given id added behind the last element
AddedLast(sq1, sq2, id) ==
    /\ Len(sq2) = Len(sq1) + 1
    /\ SubSeq(sq2, 1, Len(sq1)) = sq1
    /\ sq2[Len(sq2)].id = id

\* sq2 is sq1 with one bone of the given id added in front of the first element
AddedFirst(sq1, sq2, id) ==
    /\ Len(sq2) = Len(sq1) + 1
    /\ Tail(sq2) = sq1
    /\ sq2[1].id = id

\* the step is a successful add of the given kind
AddStep(op) == lastCall'.op = op /\ lastCall'.ok

\* the big bone, or mid-bone, whose children a step changed
ChangedBig(i) == fishData'.bigBones[i] # fishData.bigBones[i]
ChangedMid(i, j) == fishData'.bigBones[i].midBones[j] # fishData.bigBones[i].midBones[j]

BigAddedLast ==
    AddStep("addBigBone") => AddedLast(fishData.bigBones, fishData'.bigBones, IdOf(idSeq'))

SmallAddedLast ==
    AddStep("addSmallBone") =>
        /\ Len(fishData'.bigBones) = Len(fishData.bigBones)
        /\ \E i \in 1..Len(fishData.bigBones) :
              /\ ChangedBig(i)
              /\ Len(fishData'.bigBones[i].midBones) = Len(fishData.bigBones[i].midBones)
              /\ \E j \in 1..Len(fishData.bigBones[i].midBones) :
                    /\ ChangedMid(i, j)
                    /\ AddedLast(fishData.bigBones[i].midBones[j].smallBones,
                                 fishData'.bigBones[i].midBones[j].smallBones, IdOf(idSeq'))

MidAddedLast ==
    AddStep("addMidBone") =>
        /\ Len(fishData'.bigBones) = Len(fishData.bigBones)
        /\ \E i \in 1..Len(fishData.bigBones) :
              /\ ChangedBig(i)
              /\ AddedLast(fishData.bigBones[i].midBones, fishData'.bigBones[i].midBones,
                           IdOf(idSeq'))

MidAddedFirst ==
    AddStep("addMidBone") =>
        /\ Len(fishData'.bigBones) = Len(fishData.bigBones)
        /\ \E i \in 1..Len(fishData.bigBones) :
              /\ ChangedBig(i)
              /\ AddedFirst(fishData.bigBones[i].midBones, fishData'.bigBones[i].midBones,
                            IdOf(idSeq'))

\* C3 as stated: every successful add puts the new bone behind the last
\* element of its parent's sequence and keeps the order of the siblings
C3_AddsAppend == [][BigAddedLast /\ MidAddedLast /\ SmallAddedLast]_vars

\* C3 amended: addBigBone and addSmallBone put the new bone behind the last
\* element of the parent's sequence, addMidBone puts the new mid-bone in
\* front of the first; the order of the pre-existing siblings is unchanged
C3_AddsAppendMidsPrepend == [][BigAddedLast /\ MidAddedFirst /\ SmallAddedLast]_vars

\* C3 witness: a mid-bone has just been added to a big bone that had one
\* already, and is its first mid-bone
C3_Witness ==
    /\ lastCall = [op |-> "addMidBone", type |-> "mid", ok |-> TRUE]
    /\ \E i \in 1..Len(fishData.bigBones) :
          /\ Len(fishData.bigBones[i].midBones) >= 2
          /\ fishData.bigBones[i].midBones[1].id = IdOf(idSeq)

\* the path d names a bone of the tree
Resolves(fd, d) ==
    \E b \in SeqToSet(fd.bigBones) :
        /\ b.id = d.bigId
        /\ d.type # "big" =>
              \E m \in SeqToSet(b.midBones) :
                  /\ m.id = d.midId
                  /\ d.type # "mid" => \E sm \in SeqToSet(m.smallBones) : sm.id = d.smId

\* C4: a deleteBone whose path does not resolve leaves the tree as it was
\* (bones, order, labels, positions), so that the same deleteBone on the
\* result gives that tree again
C4_UnresolvedDeleteIsNoOp ==
    [][\A d \in DelInfos :
          (~Resolves(fishData, d) /\ deleteBone(d)) =>
              /\ fishData' = fishData
              /\ deleteBoneTree(fishData'.bigBones, d) = fishData.bigBones]_vars

\* C4 witness: a deleteBone for a small bone has just run on a tree that
\* holds mid-bones, and its path did not resolve
C4_Witness ==
    /\ lastCall = [op |-> "deleteBone", type |-> "small", ok |-> FALSE]
    /\ MidsOf(fishData) # {}
    /\ Len(fishData.bigBones) >= 2

\* C5: addMidBone with a bigId that names no big bone, and addSmallBone with
\* a bigId or midId that names no parent, leave the tree and idSeq unchanged
C5_AddUnderUnknownParentIsNoOp ==
    [][/\ \A b \in BigIds :
             (addMidBone(b) /\ b \notin {x.id : x \in SeqToSet(fishData.bigBones)}) =>
                 fishData' = fishData /\ idSeq' = idSeq
       /\ \A b \in BigIds, m \in MidIds :
             (addSmallBone(b, m)
              /\ ~\E x \in SeqToSet(fishData.bigBones) :
                     x.id = b /\ m \in {y.id : y \in SeqToSet(x.midBones)}) =>
                 fishData' = fishData /\ idSeq' = idSeq]_vars

\* C5 witness: an addMidBone has just run on a tree that holds bones, with
\* room left under the counter's bound, and did not find its parent
C5_Witness ==
    /\ lastCall = [op |-> "addMidBone", type |-> "mid", ok |-> FALSE]
    /\ fishData.bigBones # <<>>
    /\ idSeq < MaxIdSeq

(***************************************************************************)
(* Properties of import, export and init                                   *)
(***************************************************************************)
\* two trees have the same nesting, in the same order, and the same label
\* at every position
SameShapeAndLabels(fd1, fd2) ==
    /\ Len(fd1.bigBones) = Len(fd2.bigBones)
    /\ \A i \in 1..Len(fd1.bigBones) :
          LET b1 == fd1.bigBones[i]
              b2 == fd2.bigBones[i]
          IN  /\ b1.label = b2.label
              /\ Len(b1.midBones) = Len(b2.midBones)
              /\ \A j \in 1..Len(b1.midBones) :
                    LET m1 == b1.midBones[j]
                        m2 == b2.midBones[j]
                    IN  /\ m1.label = m2.label
                        /\ Len(m1.smallBones) = Len(m2.smallBones)
                        /\ \A k \in 1..Len(m1.smallBones) :
                              m1.smallBones[k].label = m2.smallBones[k].label

\* C6 as stated: setData(getData()) gives a tree of the same nesting and the
\* same labels as the tree before, also when a label is the empty string
C6_RoundTripKeepsShapeAndLabels ==
    [][setDataOfGetData => SameShapeAndLabels(fishData, fishData')]_vars

\* C7 as stated: when init() without an argument has completed, bigBones is
\* empty, whatever tree the component held before
C7_InitWithoutArgumentEmptiesTree ==
    lastCall = [op |-> "init", type |-> "none", ok |-> TRUE] => fishData.bigBones = <<>>

(***************************************************************************)
(* Properties of what a render leaves behind                               *)
(***************************************************************************)
\* C8 as stated: after every render in edit mode, callbackMap holds, for
\* every mid-bone of the rendered tree, a button whose callback is
\* addSmallBone for that big bone and mid-bone
C8_EveryMidBoneHasAddSmallButton ==
    (drawn.live /\ drawn.mode = "edit") =>
        \A b \in SeqToSet(drawn.fd.bigBones) : \A m \in SeqToSet(b.midBones) :
            \E c \in callbackMap : c.fn = Callback("addSmallBone", b.id, m.id)

\* C9: in edit mode, after any sequence of add and delete operations,
\* editOverlays holds exactly one overlay for each bone of the tree, bound
\* to that bone, and none for a bone that is not in the tree
C9_OneOverlayPerBone ==
    mode = "edit" =>
        \A ovs \in {editOverlays} :
            /\ Len(ovs) = BoneCount(fishData)
            /\ {ovs[n].boneRef.id : n \in 1..Len(ovs)} = IdsOf(fishData)
            /\ \A n \in 1..Len(ovs) :
                  /\ ovs[n].boneRef.live
                  /\ ovs[n].id = OverlayId(ovs[n].delInfo)
                  /\ Resolves(fishData, ovs[n].delInfo)

\* C9 witness: in edit mode a bone has just been deleted from a tree that
\* still holds bones of all three levels
C9_Witness ==
    /\ mode = "edit"
    /\ lastCall.op = "deleteBone" /\ lastCall.ok
    /\ SmallsOf(fishData) # {}
    /\ Len(editOverlays) = BoneCount(fishData)

\* C10 as stated: in the drawing, the left edge of every label box and the
\* far end of every diagonal is at least 50 to the right of
\* mainLeft = PAD_L + shiftX + TAIL
C10_ClearOfTailBoundary ==
    (drawn.live /\ drawn.mode = "edit") =>
        \A lay \in {calculateLayout(drawn.fd)} :
            \A r \in {RenderOf(lay, drawn.mode)} :
                /\ \A n \in 1..Len(r.editOverlays) :
                      r.editOverlays[n].x >= mainLeftOf(lay) + Px(50)
                /\ \A e \in r.graph.edges :
                      e.role = "diag" => e.x2 >= mainLeftOf(lay) + Px(50)

\* the x coordinates of everything renderGraph draws for the bone of one
\* slot: both ends of its diagonal, the left edge of its label box, both
\* ends of every mid-bone line and small-bone connector, and the left edges
\* of the mid-bone and small-bone label boxes
SlotDrawnXs(lay, slot) ==
    {BigLabelCall(lay, slot).x}
    \cup {c.x : c \in SeqToSet(MidLabelCalls(lay, slot, 1))}
    \cup {e.x1 : e \in SlotEdges(lay, slot)}
    \cup {e.x2 : e \in SlotEdges(lay, slot)}

\* C11 as stated: every element drawn for a big bone anchored at x lies at
\* or to the right of x - boneLeftExtent(b)
C11_DrawnWithinLeftExtent ==
    drawn.live =>
        \A lay \in {calculateLayout(drawn.fd)} :
            \A k \in 1..Len(lay.slots) :
                \A x \in SlotDrawnXs(lay, lay.slots[k]) :
                    x >= lay.slots[k].x - boneLeftExtent(lay.slots[k].b)

\* the interval [anchorX - boneLeftExtent(b), anchorX] of a slot
SlotLeft(slot) == slot.x - boneLeftExtent(slot.b)

IntervalsMeet(s1, s2) == s1.x >= SlotLeft(s2) /\ s2.x >= SlotLeft(s1)

\* the group (pair of a top and a bottom big bone) of the k-th slot
GroupOfSlot(k) == (k + 1) \div 2

\* C12 as stated: the intervals [anchorX - boneLeftExtent(b), anchorX] of
\* any two distinct big bones of the layout do not intersect
C12_SlotIntervalsDisjoint ==
    drawn.live =>
        \A lay \in {calculateLayout(drawn.fd)} :
            \A k1, k2 \in 1..Len(lay.slots) :
                k1 # k2 => ~IntervalsMeet(lay.slots[k1], lay.slots[k2])

\* C12 amended: the intervals of two big bones of different groups do not
\* intersect, and the group nearer the tail lies wholly to the left; the
\* top and the bottom bone of one group are anchored PAIR_GAP apart
C12_GroupIntervalsDisjoint ==
    drawn.live =>
        \A lay \in {calculateLayout(drawn.fd)} :
            \A k1, k2 \in 1..Len(lay.slots) :
                /\ GroupOfSlot(k1) < GroupOfSlot(k2) =>
                      /\ ~IntervalsMeet(lay.slots[k1], lay.slots[k2])
                      /\ lay.slots[k2].x < SlotLeft(lay.slots[k1])
                /\ (GroupOfSlot(k1) = GroupOfSlot(k2) /\ k1 < k2) =>
                      lay.slots[k2].x = lay.slots[k1].x - Px(PAIR_GAP)

\* two groups are drawn, and a bone of the group nearer the head carries a
\* mid-bone, so that its extent is more than the default
C12_Witness ==
    /\ drawn.live
    /\ drawn.fd = fishData
    /\ Len(fishData.bigBones) = 3
    /\ \E i \in 1..2 : Len(fishData.bigBones[i].midBones) > 0
    /\ \A lay \in {calculateLayout(drawn.fd)} :
          IntervalsMeet(lay.slots[1], lay.slots[2])

\* where renderGraph draws the spine point of a slot: the start of its
\* diagonal
DrawnAnchor(lay, slot) ==
    CHOOSE x \in {e.x1 : e \in {d \in SlotEdges(lay, slot) : d.role = "diag"}} : TRUE

\* C13 as stated: the drawing keeps the distances of the pre-shift layout,
\* from every big-bone anchor to the spine's head end (mainEnd) and to the
\* spine's start (PAD_L + TAIL)
C13_ShiftAppliedUniformly ==
    drawn.live =>
        \A lay \in {calculateLayout(drawn.fd)} :
            \A k \in 1..Len(lay.slots) :
                \A x \in {DrawnAnchor(lay, lay.slots[k])} :
                    /\ RenderOf(lay, drawn.mode).headPos.x - x
                          = mainEnd(drawn.fd.bigBones) - Slots(drawn.fd.bigBones)[k].x
                    /\ x - mainLeftOf(lay)
                          = Slots(drawn.fd.bigBones)[k].x - Px(PAD_L + TAIL)

\* some bone geometry scanned for the bounds (with its margins) lies left of
\* tailSafeRight
GeometryLeftOfTailSafe(slots) ==
    \E k \in 1..Len(slots) : BoneXMinFrom(slots[k].b, slots[k].x, 1) < tailSafeRight

\* C14 as stated: shiftX is 0 for every tree without scanned geometry left
\* of tailSafeRight, and positive only when there is some
C14_ShiftOnlyWhenGeometryLeft ==
    drawn.live =>
        \A lay \in {calculateLayout(drawn.fd)} :
            /\ ~GeometryLeftOfTailSafe(lay.slots) => lay.shiftX = 0
            /\ lay.shiftX > 0 => GeometryLeftOfTailSafe(lay.slots)

\* C15 as stated: for a non-empty tree the head is drawn HEAD_TO_FIRST_BONE
\* to the right of the drawn anchor of the top bone of the first group
C15_HeadAtFirstAnchor ==
    (drawn.live /\ Len(drawn.fd.bigBones) > 0) =>
        \A lay \in {calculateLayout(drawn.fd)} :
            RenderOf(lay, drawn.mode).headPos.x
                = DrawnAnchor(lay, lay.slots[1]) + Px(HEAD_TO_FIRST_BONE)

\* distance in the drawing from the anchor of the k-th slot to the spine's
\* head end (headPos.x is shiftedMainEnd)
HeadDistance(lay, k) == lay.shiftedMainEnd - DrawnAnchor(lay, lay.slots[k])

\* group g holds the same big bones, with the same content, in both trees
GroupUnchanged(bb1, bb2, g) ==
    \A i \in {2 * g - 1, 2 * g} :
        /\ (i <= Len(bb1)) <=> (i <= Len(bb2))
        /\ i <= Len(bb1) => bb1[i] = bb2[i]

\* the groups nearer the head than the first group whose content differs
GroupsBeforeChange(bb1, bb2) ==
    {j \in 1..NumGroups(bb1) : \A g \in 1..j : GroupUnchanged(bb1, bb2, g)}

RECURSIVE SmallsWithoutIds(_, _)
SmallsWithoutIds(sms, k) ==
    IF k > Len(sms) THEN <<>>
    ELSE <<[id |-> NoId, label |-> sms[k].label]>> \o SmallsWithoutIds(sms, k + 1)

RECURSIVE MidsWithoutIds(_, _)
MidsWithoutIds(mids, j) ==
    IF j > Len(mids) THEN <<>>
    ELSE <<[id |-> NoId, label |-> mids[j].label,
            smallBones |-> SmallsWithoutIds(mids[j].smallBones, 1)]>>
         \o MidsWithoutIds(mids, j + 1)

RECURSIVE BigsWithoutIds(_, _)
BigsWithoutIds(bb, i) ==
    IF i > Len(bb) THEN <<>>
    ELSE <<[id |-> NoId, label |-> bb[i].label, position |-> bb[i].position,
            midBones |-> MidsWithoutIds(bb[i].midBones, 1)]>>
         \o BigsWithoutIds(bb, i + 1)

WithoutIds(fd) == [bigBones |-> BigsWithoutIds(fd.bigBones, 1)]

SamePositions(fd1, fd2) ==
    /\ Len(fd1.bigBones) = Len(fd2.bigBones)
    /\ \A i \in 1..Len(fd1.bigBones) : fd1.bigBones[i].position = fd2.bigBones[i].position

C18_EmptyTreeLayout ==
    (drawn.live /\ drawn.fd.bigBones = <<>>) =>
        \A lay \in {calculateLayout(drawn.fd)} : \A r \in {RenderOf(lay, drawn.mode)} :
            /\ lay.slots = <<>>
            /\ r.tailPos.x + r.tailPos.w = mainLeftOf(lay)
            /\ r.headPos.x - mainLeftOf(lay) = Px(EMPTY_MAIN_LEN)
            /\ \A e \in r.graph.edges :
                  /\ e.role = "spine"
                  /\ e.x1 <= mainLeftOf(lay) /\ e.x2 >= r.headPos.x /\ e.y1 = e.y2
            /\ r.graph.width = Px(900)
            /\ r.graph.height = Px(700)

\* the last bone has been deleted and the empty tree drawn
C18_Witness ==
    /\ drawn.live
    /\ drawn.fd.bigBones = <<>>
    /\ fishData.bigBones = <<>>
    /\ lastCall.op = "deleteBone" /\ lastCall.ok


\* the label of the bone an overlay path points to
LabelAt(bb, d) ==
    LET bi == FindIndex(bb, d.bigId)
    IN  IF d.type = "big" THEN bb[bi].label
        ELSE LET mi == FindIndex(bb[bi].midBones, d.midId)
             IN  IF d.type = "mid" THEN bb[bi].midBones[mi].label
                 ELSE bb[bi].midBones[mi].smallBones[
                          FindIndex(bb[bi].midBones[mi].smallBones, d.smId)].label

\* the first n characters of a text
FirstChars(v, n) == [i \in 1..(IF Len(v) < n THEN Len(v) ELSE n) |-> v[i]]

AllTyped == TypedValues \cup BoundaryValues

\* C19: whatever value is typed, onHeadInput leaves the head label, and
\* onOverlayInput leaves the label of the bone of the overlay, equal to the
\* first MAX_CHARS characters of the typed value: never longer than MAX_CHARS,
\* and the typed value itself when that has at most MAX_CHARS characters.
C19_InputStoresFirstMaxChars ==
    [][/\ lastCall'.op = "onHeadInput" =>
            \A v \in AllTyped :
                onHeadInput(v) =>
                    /\ headLabel' = FirstChars(v, MAX_CHARS)
                    /\ Len(headLabel') <= MAX_CHARS
                    /\ Len(v) <= MAX_CHARS => headLabel' = v
       /\ lastCall'.op = "onOverlayInput" =>
            \A d \in OverlayPaths : \A v \in AllTyped :
                onOverlayInput(d, v) =>
                    \A l \in {LabelAt(fishData'.bigBones, d)} :
                        /\ l = FirstChars(v, MAX_CHARS)
                        /\ Len(l) <= MAX_CHARS
                        /\ Len(v) <= MAX_CHARS => l = v]_vars

\* the head label and the label of the mid bone whose input was typed into
\* last are MAX_CHARS characters long, and a small bone holds a short value
\* that was stored whole
C19_Witness ==
    /\ lastCall.op = "onOverlayInput"
    /\ headLabel = Typed(MAX_CHARS)
    /\ \E d \in OverlayPaths :
          /\ d.type = "mid"
          /\ hoveringOverlayId = OverlayId(d)
          /\ LabelAt(fishData.bigBones, d) = Typed(MAX_CHARS)
    /\ \E d \in BonePaths(fishData.bigBones) :
          d.type = "small" /\ LabelAt(fishData.bigBones, d) = Typed(3)

PanZoomOps == {"onPointerDown", "onPointerMove", "onPointerUp", "onWheel", "zoomIn", "zoomOut"}

DataOps ==
    {"addBigBone", "addMidBone", "addSmallBone", "deleteBone",
     "onOverlayMouseEnter", "onOverlayInput", "onOverlayBlur"}

\* C20: a pointer drag, a wheel event, zoomIn and zoomOut leave the tree and
\* the labels as they are; once the centering has run (needsCenter is
\* false), an add, a delete and a label edit leave panX, panY and scale as
\* they are
C20_PanZoomIndependentOfData ==
    [][/\ lastCall'.op \in PanZoomOps => UNCHANGED <<fishData, headLabel>>
       /\ (~needsCenter /\ lastCall'.op \in DataOps) => UNCHANGED <<panX, panY, scale>>]_vars

\* a small bone has just been added to a drawing that was centered and then
\* zoomed or panned away from where the centering put it
C20_Witness ==
    /\ lastCall.op = "addSmallBone" /\ lastCall.ok
    /\ ~needsCenter
    /\ viewOps > 0
    /\ drawn.live /\ drawn.fd = fishData
    /\ \A lay \in {calculateLayout(drawn.fd)} :
          \/ scale # FitScale(lay.canvasW, lay.canvasH)
          \/ panX # CenterPan(viewport.w, Scaled(lay.canvasW, scale))


\* two drawn rectangles share more than an edge
BoxesOverlap(a, b) ==
    /\ a.x < b.x + b.w /\ b.x < a.x + a.w
    /\ a.y < b.y + b.h /\ b.y < a.y + a.h

\* the label boxes addLabelNode draws for the mid-bones of one slot
MidBoxes(lay, slot) ==
    [i \in 1..Len(slot.b.midBones) |-> addLabelNode(MidLabelCall(lay, slot, i))]

\* C21 as stated: for every big bone, the drawn label boxes of any two of
\* its mid-bones do not overlap, whatever the lengths of the mid-bone labels
\* and the number of small bones
C21_MidBoxesDisjoint ==
    drawn.live =>
        \A lay \in {calculateLayout(drawn.fd)} :
            \A k \in 1..Len(lay.slots) :
                \A boxes \in {MidBoxes(lay, lay.slots[k])} :
                    \A i, j \in DOMAIN boxes :
                        i < j => ~BoxesOverlap(boxes[i], boxes[j])


\* the label boxes addLabelNode draws for the small bones of mid-bone i of a
\* slot, in sequence order
SmallBoxes(lay, slot, i) ==
    [j \in 1..Len(slot.b.midBones[i].smallBones) |->
        addLabelNode(SmallLabelCall(lay, slot, i, j))]

\* C22 as stated: under every mid-bone with two or more small bones, each
\* drawn small-bone box starts exactly SM_GAP_Y below the bottom of the box
\* before it, so no two of them overlap, whatever the label lengths
C22_SmallBoxesStackedWithGap ==
    drawn.live =>
        \A lay \in {calculateLayout(drawn.fd)} :
            \A k \in 1..Len(lay.slots) :
                \A i \in 1..Len(lay.slots[k].b.midBones) :
                    \A boxes \in {SmallBoxes(lay, lay.slots[k], i)} :
                        /\ \A j \in 1..(Len(boxes) - 1) :
                              boxes[j + 1].y - (boxes[j].y + boxes[j].h) = Px(SM_GAP_Y)
                        /\ \A j1, j2 \in DOMAIN boxes :
                              j1 < j2 => ~BoxesOverlap(boxes[j1], boxes[j2])


\* C23 as stated: for every drawn mid-bone m, the horizontal line from its
\* anchor toward the tail has length calcDynamicMidLen(m), the reach that
\* boneLeftExtent and the bounds scan use, and the label box of m ends where
\* that line ends
C23_MidLineHasDynamicReach ==
    drawn.live =>
        \A lay \in {calculateLayout(drawn.fd)} :
            \A k \in 1..Len(lay.slots) :
                \A i \in 1..Len(lay.slots[k].b.midBones) :
                    \A g \in {MidGeom(lay, lay.slots[k], i)} :
                        /\ addEdge("mid", g.ax, g.ay, g.mex, g.ay) \in SlotEdges(lay, lay.slots[k])
                        /\ g.ax - g.mex = calcDynamicMidLen(lay.slots[k].b.midBones[i])
                        /\ \A box \in {addLabelNode(MidLabelCall(lay, lay.slots[k], i))} :
                              box.x + box.w = g.mex


\* C24: for consecutive groups g and g + 1, every bone of group g + 1 is
\* anchored at least GROUP_GAP to the left of anchor - boneLeftExtent of
\* every bone of group g, and the anchors of the group tops strictly
\* decrease from the head to the tail.
C24_NextGroupLeftOfReserved ==
    drawn.live =>
        \A slots \in {calculateLayout(drawn.fd).slots} :
            \A k1, k2 \in 1..Len(slots) :
                GroupOfSlot(k2) = GroupOfSlot(k1) + 1 =>
                    /\ slots[k2].x <= SlotLeft(slots[k1]) - Px(GROUP_GAP)
                    /\ slots[2 * GroupOfSlot(k2) - 1].x < slots[2 * GroupOfSlot(k1) - 1].x

\* three big bones are drawn, and the bottom bone of the first group carries
\* a mid-bone with a label of MAX_CHARS characters, so that its reserved
\* extent is what the second group has to clear
C24_Witness ==
    /\ drawn.live
    /\ drawn.fd = fishData
    /\ Len(fishData.bigBones) = 3
    /\ Len(fishData.bigBones[1].midBones) = 0
    /\ \E i \in 1..Len(fishData.bigBones[2].midBones) :
          Len(fishData.bigBones[2].midBones[i].label) = MAX_CHARS
    /\ boneLeftExtent(fishData.bigBones[2]) > boneLeftExtent(fishData.bigBones[1])


\* C25: for every big bone b with mid-bones, the anchor parameter
\* t = centerOffset / calcDiag(b) of each mid-bone lies strictly between 0
\* and 1 and strictly increases with the index in midBones; the drawn anchor
\* lies on the diagonal between the spine and its end, and the mid-bone at
\* index 0 is the one nearest the spine.  t is compared as the fraction
\* CenterOff2 / (2 * calcDiag).
C25_AnchorParameterOrdered ==
    drawn.live =>
        \A lay \in {calculateLayout(drawn.fd)} :
            \A k \in 1..Len(lay.slots) :
                \A b \in {lay.slots[k].b} : \A e \in {DiagEnd(lay, lay.slots[k])} :
                    \A i \in 1..Len(b.midBones) :
                        \A g \in {MidGeom(lay, lay.slots[k], i)} :
                            /\ 0 < CenterOff2(b, i)
                            /\ CenterOff2(b, i) < 2 * calcDiag(b)
                            /\ i > 1 => CenterOff2(b, i - 1) < CenterOff2(b, i)
                            /\ e.ex < g.ax /\ g.ax < lay.slots[k].x
                            /\ Abs(g.ay - lay.cy) = lay.slots[k].x - g.ax
                            /\ Abs(g.ay - lay.cy) < Abs(e.ey - lay.cy)
                            /\ i > 1 => Abs(MidGeom(lay, lay.slots[k], 1).ay - lay.cy)
                                            < Abs(g.ay - lay.cy)

\* a drawn big bone has two mid-bones, one of them with a small bone, so
\* the spans that separate the anchors differ
C25_Witness ==
    /\ drawn.live
    /\ drawn.fd = fishData
    /\ \E k \in 1..Len(fishData.bigBones) :
          /\ Len(fishData.bigBones[k].midBones) = 2
          /\ \E i \in 1..2 : Len(fishData.bigBones[k].midBones[i].smallBones) = 1


\* the heights of the first n small-bone boxes added up, without gaps
RECURSIVE SumOfSmBoxH(_, _)
SumOfSmBoxH(sms, n) == IF n = 0 THEN 0 ELSE SumOfSmBoxH(sms, n - 1) + smBoxH(sms[n])

\* C26: totalSmallBonesH(m) is 0 for a mid-bone without small bones, and
\* otherwise the sum of smBoxH over its small bones plus SM_GAP_Y times
\* (count - 1); for five small bones with one-character labels it is
\* 5 * SM_BOX_H + 4 * SM_GAP_Y.
C26_TotalSmallBonesH ==
    \A m \in MidsOf(fishData) :
        \A n \in {Len(m.smallBones)} :
            /\ n = 0 => totalSmallBonesH(m) = 0
            /\ n > 0 => totalSmallBonesH(m) = SumOfSmBoxH(m.smallBones, n) + Px(SM_GAP_Y) * (n - 1)
            /\ (n = 5 /\ \A j \in 1..n : Len(m.smallBones[j].label) = 1)
                  => totalSmallBonesH(m) = Px(5 * SM_BOX_H + 4 * SM_GAP_Y)

\* a drawn mid-bone holds five small bones with one-character labels
C26_Witness ==
    /\ drawn.live
    /\ drawn.fd = fishData
    /\ \E m \in MidsOf(fishData) :
          /\ Len(m.smallBones) = 5
          /\ \A j \in 1..5 : Len(m.smallBones[j].label) = 1
          /\ totalSmallBonesH(m) = 15200


\* a rectangle lies inside the canvas of a render
BoxInCanvas(box, r) ==
    /\ 0 <= box.x /\ box.x + box.w <= r.graph.width
    /\ 0 <= box.y /\ box.y + box.h <= r.graph.height

PointInCanvas(x, y, r) == 0 <= x /\ x <= r.graph.width /\ 0 <= y /\ y <= r.graph.height

\* C27 as stated: every element a render positions (label boxes, lines,
\* plus buttons, and the ornament boxes headPos and tailPos) lies inside the
\* canvas rectangle [0, canvasW] x [0, canvasH]
C27_EverythingInsideCanvas ==
    drawn.live =>
        \A lay \in {calculateLayout(drawn.fd)} : \A r \in {RenderOf(lay, drawn.mode)} :
            /\ \A box \in SeqToSet(MapLabelNode(LabelCalls(lay, 1), 1)) : BoxInCanvas(box, r)
            /\ \A box \in r.graph.btnNodes : BoxInCanvas(box, r)
            /\ \A e \in r.graph.edges :
                  PointInCanvas(e.x1, e.y1, r) /\ PointInCanvas(e.x2, e.y2, r)
            /\ BoxInCanvas(r.headPos, r)
            /\ BoxInCanvas(r.tailPos, r)


\* C28 as stated, for an earlier init whose promise settles right after a
\* later init that was handed its data directly: the later init is the most
\* recent one, so the settling promise leaves the tree and the rendered
\* diagram as that init made them
C28_LatestInitWins ==
    [][(/\ lastCall.op = "init"
        /\ lastCall.type = "data"
        /\ pendingInits # <<>>
        /\ lastCall'.op = "settleInit")
          => /\ fishData' = fishData
             /\ drawn'.fd = drawn.fd]_vars


\* C29 as stated: in every reachable state the zoom factor lies in
\* [SCALE_MIN, SCALE_MAX]
C29_ScaleWithinRange == SCALE_MIN <= scale /\ scale <= SCALE_MAX


\* C30: while mode is 'view' and the render of the mode switch has run,
\* editOverlays and callbackMap are empty, and no step other than the switch
\* back to 'edit' (a click on a node, a hover, typing, a delete button)
\* changes the tree: no bone is added, deleted or relabelled.
C30_ViewModeIsReadOnly ==
    [][(mode = "view" /\ drawn.live /\ drawn.mode = "view")
          => /\ \A r \in {RenderOut(drawn.fd, drawn.mode)} :
                   r.editOverlays = <<>> /\ r.callbackMap = {}
             /\ OverlayPaths = {}
             /\ mode' = "view" => fishData' = fishData]_vars

\* in view mode a node of a drawn tree with a mid-bone was clicked and
\* nothing happened; the tree carries a label typed in edit mode
C30_Witness ==
    /\ mode = "view"
    /\ drawn.live /\ drawn.mode = "view" /\ drawn.fd = fishData
    /\ lastCall.op = "onNodeClick" /\ ~lastCall.ok
    /\ MidsOf(fishData) # {}
    /\ \E m \in MidsOf(fishData) : Len(m.label) = MAX_CHARS
====
